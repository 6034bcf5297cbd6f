SPECIFICATION Spec

CONSTANTS
    analyst = analyst
    viewer = viewer
    session = session
    hidden = hidden
    None = None
    Requests = {r1, r2, g}
    Guests = {g}
    Evidence = {good}
    Acceptable = {good}
    Readable <- MCReadable
    MaxReferences = 1
    Sessions <- MCSessions
    Principals <- MCPrincipals
    SessionOf <- MCSessionOf
    PrincipalOf <- MCPrincipalOf
    Permits <- MCFewPermits
    FaultyNodes <- MCFaulty
    MaxSteps = 9
    MaxActive = 2

SYMMETRY MCSymmetry

INVARIANTS
    SessionIsolation
    RecursionLimitNotReached
    FaultsAreReported
    MemoryAgreesWithAnswer
