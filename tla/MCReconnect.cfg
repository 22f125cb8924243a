\* One speaker, all interleavings of the engine: safety, liveness, and the pacing it implements.
SPECIFICATION FairSpec
CONSTANTS
    Speakers = {s1}
    MaxTasks = 2
    Delays <- MCDelays
    MaxBackoff = 2
    MaxFailures = 2
    BreakerCooldown = 3
    Grace = 1
    Settle = 2
    FlapWindow = 3
    FlapLimit = 2
    FlapCooldown = 2
    EnabledArgs = {TRUE, FALSE}
    LateDrops = TRUE
INVARIANTS TypeOK OneAttempt StoppedIsQuiet
PROPERTIES SettleRespected DeadlineOnlyLater ImplementsPacing DroppedSpeakerIsRetried
CHECK_DEADLOCK FALSE
