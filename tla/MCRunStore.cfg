SPECIFICATION Spec
CONSTANTS
    Owners = {o1, o2}
    Claims = {c1, c2}
    Receipts = {ra, rb}
    None = None
    Horizon = 1
    Runs = {r1}
    MaxProvisioningLease = 2
    MaxEffectLease = 2
    CommitDelay = 0
SYMMETRY Symmetry
INVARIANTS
    TypeOK
    EffectConsistent
    ClaimPhase
    AutoFiledOnlyIfVerified
PROPERTIES
    TerminalImmutable
    ForwardOnly
    LiveClaimSurvives
    LiveEffectSurvives
