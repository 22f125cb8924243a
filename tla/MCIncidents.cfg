\* Every state of the disk, at every moment.
SPECIFICATION FairSpec
CONSTANTS
    States <- MCStates
    MaxChurn = 1
    MaxWarnings = 1
INVARIANTS TypeOK Accounted LossIsAdmitted StopIsComplete
PROPERTIES HealthIsLogged
CHECK_DEADLOCK FALSE
