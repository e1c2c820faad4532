SPECIFICATION Spec
CONSTANTS
    ArgValues <- MCArgValues
    Strays <- MCStrays
INVARIANT RefusalsAreTold
