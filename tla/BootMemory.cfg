SPECIFICATION BootSpec
CONSTANTS
  Trees <- MCTrees
  PrunedName = "partitions"
  KernelRegion <- MCKernel
  PayloadRegion <- MCPayload
  StackRegion <- MCStack
  DtbStart = 28
  DtbLength = 6
  ReservedNames = {"mmode_resv0"}
  CellBase = 8
  PageSz = 4
  MaxPhys = 56
  MaxReserved = 4
  MaxMemory = 2
  MaxDevice = 2
  MaxCaps = 18
  N = 4
  BootPages <- MCBootPages
  Nil = Nil
INVARIANTS BootTypeOK WalkFindsTree CapsExact CapsFit PagesMapped BootInvariant
PROPERTY BootEnds
