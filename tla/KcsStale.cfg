SPECIFICATION Spec
CONSTANTS
  MaxSeqNo = 3
  MaxPktLen = 3
  BodyLen = 2
  MaxRspLen = 1
  MaxTxn = 2
  Budget <- OneAbort
INVARIANT HostReadsOwnAnswer
CHECK_DEADLOCK FALSE
