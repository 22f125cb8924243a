\* Liveness, where a link may drop between BlueZ's answer and the end of the attempt.
SPECIFICATION FairSpec
CONSTANTS
    Speakers = {s1}
    MaxTasks = 2
    Delays <- MCSteadyDelays
    MaxBackoff = 1
    MaxFailures = 1
    BreakerCooldown = 2
    Grace = 1
    Settle = 1
    FlapWindow = 1
    FlapLimit = 2
    FlapCooldown = 1
    EnabledArgs = {TRUE}
    LateDrops = TRUE
PROPERTY LastingDropIsActedOn
CHECK_DEADLOCK FALSE
