\* What the webhook admits against what the proxy container would see.
CONSTANTS
    MaxEnv <- MCMaxEnv
SPECIFICATION Spec
INVARIANTS
    AdmittedDataPlaneIsDBLess
