\* Lagging caches; configurations that leave the publish service alone.
CONSTANTS
    StaleReads = TRUE
    ConfigEnvs <- MCConfigEnvs
    MaxEdits <- MCMaxEdits
SPECIFICATION Spec
INVARIANTS
    TypeOK
PROPERTIES
    SpecConverges
