CONSTANTS
    Instances = {old, new}
    Newcomer = new
    Free = free
    MaxLedger = 3
    poll_interval = 1
    LockRetry = 1
    MaxDelay = 2
    MaxShift = 1
    max_lag = 1
    max_silence = 1
    max_staleness = 1
SPECIFICATION MCSpec
INVARIANTS ReadyIsBacked SourcesSound
PROPERTIES ReadinessFollows LockChangesHands ReadingEnds
CHECK_DEADLOCK FALSE
