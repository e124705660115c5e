CONSTANTS
    MaxTraffic = 3
    MaxResets = 2
SPECIFICATION Spec
INVARIANT TypeOK
INVARIANT NeverOvercountsFromBaseline
INVARIANT ExactWithoutReset
