INIT MCInit
NEXT MCNext
CONSTANTS
  Elems = {e1, e2, e3}
  QHead = QHead
  QNull = QNull
  Garbage = Garbage
  Objs = {o1, o2, o3}
  DLists = {l1, l2}
  DNull = DNull
  DGarbage = DGarbage
  OctetSize = 4
  KeyBuffers <- MCKeyBuffers
  HData = {d1, d2}
  HNull = HNull
  Sizes = {0, 3, 9}
  MIN_BUCKETS = 2
  MAX_BUCKETS = 4
  MaxEntries = 2
  BITS_PER_ELEM = 2
  Bits = 3
  ShortBits = 2
  Base = 1
  TextBits = 7
  TextBase = 7
  LineSizes = {3, 4, 5, 6, 7, 8}
  MaxTokens = 5
  SValues = {0, 1, 2, 3, 4, 5, 6}
  PValues1 = {1, 2, 3}
  PValues2 = {1, 2, 3}
  MIN_BINARY_SEARCH = 4
  AddrBits = 3
  MaxNets = 3
  Digits16 = 20
  TimeBits = 6
  SecBits = 3
  FracBits = 4
  Kilo = 3
  Epoch = 5
  PCR_TO_USEC_SHIFT = 12
  USEC_TO_PCR_SHIFT = 14
  PcrRange <- MCPcr
  Factors <- MCFactors
  AttrTypes = {1, 2, 3}
  AttrMax = 2
  AttrLens = {0, 1, 4, 5}
  MaxLens = {8, 21, 24, 27}
  FileLens = {0, 3, 9}
  FileBuf = 8
  LongBits = 6
  IntBits = 5
  UShortBits = 4
  ByteBits = 3
  Radix = 3
  Dots = 1
  WordBits = 2
  NameLen = 4
  ArgLines = 3
  Hosts = {h1, h2}
INVARIANTS
  TraversalsMeetQueue
  DListIsSequence
  LookupFindsNewest
  BitListsExact
  OrderedExactly
  
  
  
CHECK_DEADLOCK FALSE
