\* Reads go through informer caches that lag the store independently.
CONSTANTS
    StaleReads = TRUE
    MaxCreates <- MCMaxCreates
    MaxEdits <- MCMaxEdits
SPECIFICATION Spec
PROPERTIES
    DeletionCompletes
    StaleConverges
