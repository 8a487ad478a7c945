SPECIFICATION Spec
CONSTANTS
    MaxEvents = 4
    Bad = {2}
    Capacity = 2
    BatchSize = 2
    MaxRetries = 2
    MaxShutdowns = 2
CHECK_DEADLOCK FALSE
INVARIANTS OneSender NoSilentLoss
PROPERTIES ImplementsChannel
PROPERTIES EventsLeave WorkerStops
