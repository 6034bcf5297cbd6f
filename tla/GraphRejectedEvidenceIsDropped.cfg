SPECIFICATION Spec
CONSTANTS
    analyst = analyst
    viewer = viewer
    session = session
    hidden = hidden
    None = None
    Requests = {r1, r2}
    Guests = {}
    Evidence = {good, bad, hidden}
    Acceptable = {good, hidden}
    Readable <- MCReadable
    MaxReferences = 1
    Sessions <- MCSessions
    Principals <- MCPrincipals
    SessionOf <- MCSessionOf
    PrincipalOf <- MCPrincipalOf
    Permits <- MCPermits
    FaultyNodes <- MCFaulty
    MaxSteps = 20
    MaxActive = 1
INVARIANTS
    RejectedEvidenceIsDropped
