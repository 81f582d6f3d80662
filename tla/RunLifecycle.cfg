SPECIFICATION Spec
CONSTANTS
    Sessions = {alert, question}
    Relay = {alert}
    MaxConcurrent = 1
    Budget = 1
    MaxResumes = 1
    MaxAutoRetries = 1
    MaxAsks = 2
    MaxStops = 1
    MaxRestarts = 2
INVARIANTS ReportInHand
PROPERTY Settles
CHECK_DEADLOCK FALSE
