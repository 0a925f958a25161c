\* One process, two snapshots and the link.
SPECIFICATION IngestSpec
CONSTANTS
    Ingesters = {i1}
    MaxHealth = 2
    MaxScan = 0
    MaxSignature = 0
    MaxEvents = 3
    MaxFaults = 0
INVARIANTS LaterLogsSortLater
CHECK_DEADLOCK FALSE
