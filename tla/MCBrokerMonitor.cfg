SPECIFICATION MonitorFairSpec
CONSTANTS
    QueueSize = 1
    MaxChanges = 3
INVARIANTS SerialHandlersAgree AlertsSound
PROPERTIES ShutdownDrains
CHECK_DEADLOCK FALSE
