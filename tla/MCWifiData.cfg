\* A reorder window of four and four descriptors, with sequence numbers that wrap
\* after three frames; two queues and the management queue of one station.
SPECIFICATION DataSpec
CONSTANTS
    SnMod = 64
    AICWF_REORDER_WINSIZE = 4
    MAX_REORD_RXFRAME = 4
    FirstFrame = 61
    MaxArrivals = 4
    MaxFlush = 1
    Tids <- MCTids
    MGMT = "mgmt"
    Uapsd <- MCUapsd
    Hwq <- MCHwq
    Loads <- MCTxLoads
    MaxRetries = 1
    NX_TXQ_INITIAL_CREDITS = 2
    CreditMax = 3
    RWNX_NDEV_FLOW_CTRL_STOP = 2
    RWNX_NDEV_FLOW_CTRL_RESTART = 2
    HwqSize = 1
    CntMod = 8
INVARIANTS
    DeliveredInOrder
    HeldIsTimed
    DescriptorsKept
    PsCountsExact
    HwqListSound
    
CHECK_DEADLOCK FALSE
