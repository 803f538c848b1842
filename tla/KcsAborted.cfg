SPECIFICATION Spec
CONSTANTS
  MaxSeqNo = 3
  MaxPktLen = 3
  BodyLen = 2
  MaxRspLen = 1
  MaxTxn = 2
  Budget <- OneAbort
PROPERTY AbortedNotAnswered
CHECK_DEADLOCK FALSE
