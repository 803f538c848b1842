SPECIFICATION MCFairSpec
CONSTANTS
  MaxSeqNo = 2
  MaxPktLen = 3
  BodyLen = 2
  MaxRspLen = 2
  MaxTxn = 2
  Budget <- ThreeFaults
INVARIANT TypeOK
INVARIANT RequestIntact
INVARIANT NoLostRequest
INVARIANT HostSeesPhase
PROPERTY ImplementsExchange
PROPERTY EveryRequestAnswered
PROPERTY AbortRecovers
CHECK_DEADLOCK FALSE
