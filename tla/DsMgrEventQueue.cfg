SPECIFICATION FairSpec
CONSTANTS
    QueueMax = 2
    MaxEvents = 4
    DsClients = {"client"}
INVARIANTS
    TypeOK
    ListWellFormed
    ArrivalOrder
    HeadNotNull
    NoWaitCycle
PROPERTIES
    ImplementsChannel
    QueuedIsProcessed
    StopCompletes
