\* Two tasks on three command slots, two of which the manager queues; a bus with
\* queues of two packets and aggregates of two.
SPECIFICATION HostSpec
CONSTANTS
    c1 = c1
    c2 = c2
    Callers = {c1, c2}
    Plans <- MCPlans
    RWNX_CMD_ARRAY_SIZE = 3
    RWNX_CMD_MAX_QUEUED = 2
    MaxPkts = 3
    Prio <- MCPrio
    Loads <- MCLoads
    TXQ_MAX = 2
    RXQ_MAX = 2
    MaxCredit = 4
    tx_aggr_counter = 2
    DATA_FLOW_CTRL_THRESH = 2
INVARIANTS
    SlotsAccounted
    OneAtATime
    CreditsKept
    NothingStranded
    SentAwake
PROPERTIES
    DeferredPushed
    DataSent
CHECK_DEADLOCK FALSE
