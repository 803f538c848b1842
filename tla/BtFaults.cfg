SPECIFICATION FairSpec
CONSTANTS
  MaxTxn = 3
  Budget <- AllFaults
INVARIANT TypeOK
INVARIANT BusyWhileReading
INVARIANT RequestWhole
PROPERTY ImplementsExchange
PROPERTY EveryRequestAnswered
PROPERTY HostGetsIn
CHECK_DEADLOCK FALSE
