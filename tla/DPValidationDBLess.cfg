\* What the validator accepts against what the proxy container would see.
CONSTANTS
    MaxEnv <- MCMaxEnv
SPECIFICATION Spec
INVARIANTS
    ValidatorAcceptsOnlyDBLess
