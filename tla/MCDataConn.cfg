SPECIFICATION Spec
CONSTANTS
    write1 = write1
    read1 = read1
    IO = {write1, read1}
    Op <- MCOp
    Val <- MCVal
    Wire = {1, 2}
    SendCap = 1
    MaxPings = 1
    MaxFaults = 2
INVARIANTS TypeOK InflightExact IInv
PROPERTIES RefinesBlockService IOAnswered FailureReported
CHECK_DEADLOCK FALSE
