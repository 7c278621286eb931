SPECIFICATION Spec
CONSTANTS
    v1 = v1
    v2 = v2
    Volume = {v1, v2}
    Host = {1, 2}
    DC <- MCDC
    Caller = {1}
    Pool = {1}
    CloneOf <- V2OfV1
    MaxCalls = 3
    MaxFaults = 1
    Fault = {"crash", "lease", "store", "mark", "replica", "engine"}
INVARIANTS TypeOK RecordsMatchProcesses CloneHasData IInv
PROPERTIES ServesData Heals AttachServed
CHECK_DEADLOCK FALSE
