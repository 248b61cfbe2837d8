SPECIFICATION Spec
CONSTANTS
    Owners = {"d1", "d2", "attended", "operator"}
    Claims = {"exec", "daemon", "mon", "cli"}
    Receipts = {"attestation"}
    None = None
    Horizon = 1
    Jobs <- PlainJobs
    Policy = "auto"
    Commands = {"close", "remove"}
    Attended = FALSE
    Crashes = {}
    ProvisioningLease = 2
    OperationLimit = 1
    CloseLease = 2
    VerifierLease = 2
    VerifierLimit = 1
    CommitDelay = 1
    ScanDelay = 0
PROPERTIES
    ReceiptSavedOnlyWhileOwned
