SPECIFICATION Spec
CONSTANTS
    h1 = h1
    h2 = h2
    Hooks = {h1, h2}
    Daemons <- MCDaemons
    Opaque <- MCOpaque
    MaxHandoverAttempts = 1
    Plans <- MCPlans
INVARIANTS
    WritersOwnTheEndpoint
    CapturedByNoOlder
    SuccessIsExact
PROPERTIES
    CapturedUnlessCut
CHECK_DEADLOCK FALSE
