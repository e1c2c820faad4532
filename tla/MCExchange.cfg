SPECIFICATION Spec
CONSTANTS
    ArgValues <- MCArgValues
    Strays <- MCStrays
INVARIANTS LegalCallsReachTheirHandler AnswersArrive
