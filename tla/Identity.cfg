SPECIFICATION Spec
CONSTANTS
    NoKey = NoKey
    Torn = Torn
    MaxFaults = 3
INVARIANTS TypeOK PairMatches IdentityKept SecurityErrorsJustified FailsOnlyTorn
PROPERTIES StartsUnlessTorn
