\* Reads go through lagging caches; teardown checked for orphaned
\* cluster-wide children.
CONSTANTS
    StaleReads = TRUE
    MaxCreates <- MCMaxCreates
    MaxEdits <- MCMaxEdits
SPECIFICATION Spec
INVARIANTS
    FinalizerSafety
