SPECIFICATION CredSpec
CONSTANTS
    CredNames = {"github-pat", "c2"}
    CredSpecs <- MCCredSpecs
INVARIANTS InjectedReachTools
CHECK_DEADLOCK FALSE
