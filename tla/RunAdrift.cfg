SPECIFICATION Spec
CONSTANTS
    Sessions = {alert}
    Relay = {alert}
    MaxConcurrent = 2
    Budget = 2
    MaxResumes = 1
    MaxAutoRetries = 1
    MaxAsks = 1
    MaxStops = 1
    MaxRestarts = 0
INVARIANT HasTask
CHECK_DEADLOCK FALSE
