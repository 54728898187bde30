\* Two runs of the script, a start of the service, two interruptions.
SPECIFICATION FairSpec
CONSTANTS
    versionTable = versionTable
    logs = logs
    ix1 = ix1
    ix2 = ix2
    circuit = circuit
    failures = failures
    eventType = eventType
    r1 = r1
    r2 = r2
    Tables <- TablesIn
    IndexesOf <- IndexesIn
    Columns <- ColumnsIn
    EndpointColumns = {circuit, failures}
    Runners = {r1, r2}
    MaxRecords = 2
    MaxStops = 2
INVARIANTS
    RecordedIsComplete
    IndexLostByStop
    ServesComplete
PROPERTIES
    UpgradeCompletes
\* The service is up and nobody runs the script any more.
CHECK_DEADLOCK FALSE
