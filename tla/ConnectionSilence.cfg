CONSTANTS
    Timeout = 6
    Interval = 2
    MaxRetries = 5
    Faults = {}
SPECIFICATION Spec
PROPERTY TimeoutAfterSilence
