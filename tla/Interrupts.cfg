SPECIFICATION FairSpec
CONSTANTS
    Complexes <- MCComplexes
    Hardware <- MCHardware
    Space = 8
    Cpus = {c1, c2}
    Bsp = c1
    Irqls = {1, 2, 3}
    PerIrql = 3
    IoApics <- MCIoApics
    Overrides <- MCOverrides
    Prt <- MCPrt
    Requests <- MCRequests
    Order <- MCOrder
    PicSpurious <- MCPicSpurious
    None = None
CHECK_DEADLOCK FALSE
INVARIANTS RegistrationSound DeliverySound 
PROPERTIES InterruptsServed
