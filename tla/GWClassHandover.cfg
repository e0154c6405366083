\* The Gateway's class starts served and may be deleted or handed to another
\* controller; the Gateway's own events then no longer pass the predicate.
CONSTANTS
    StaleReads = FALSE
    ChildRemovals = FALSE
    Resync = TRUE
    MaxCreates <- MCMaxCreates
    MaxDisturb <- MCMaxDisturb
    Classes <- MCHandoverClasses
CHECK_DEADLOCK FALSE
SPECIFICATION Spec
PROPERTIES
    DeletionCompletes
