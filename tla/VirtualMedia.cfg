SPECIFICATION FairSpec
CONSTANTS
  NumDrives = 2
  Kind <- Kinds
  MaxCmd = 3
  Settings <- Mixes
INVARIANT TypeOK
INVARIANT PacketIsAwaited
INVARIANT HostReadsOwn
INVARIANT CommandNotData
INVARIANT NoLostCommand
PROPERTY AnswerIsAwaited
PROPERTY CaseIsOwn
PROPERTY HostServed
CHECK_DEADLOCK FALSE
