\* Reads go through caches that lag the store; no periodic resync, so the
\* key is queued only by watched changes and failed passes.
\* A controller whose key is not queued waits for an event and takes no
\* step: the whole system may fall quiet, and DeletionCompletes, not the
\* deadlock check, says whether a quiet Gateway still had work to do.
CONSTANTS
    StaleReads = TRUE
    ChildRemovals = FALSE
    Resync = FALSE
    MaxCreates <- MCMaxCreates
    MaxDisturb <- MCMaxDisturb
    Classes <- MCServedClass
CHECK_DEADLOCK FALSE
SPECIFICATION Spec
INVARIANTS
    ProgrammedHasAddress
PROPERTIES
    TeardownOrdered
    DeletionCompletes
