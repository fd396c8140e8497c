INIT MCInit
NEXT MCNext
CONSTANTS
  LlBuckets = 2
  NoName = NoName
  Indexes = {1, 2, 3}
  LinkNames = {"a", "b", "c", "d"}
  QLen = 2
  BufMsgs = 2
  PartMsgs = 3
  MaxSeq = 2
  MaxNotices = 1
  Capacity = 3
  BufEvents = 4
  EventMasks = {{"modify"}, {"close_write"}}
  MaxEvents = 6
  WinDirs = {"d", "e"}
  MaxHandles = 2
  MaxChanges = 3
  MaxOps = 1
  BufChanges = 2
  EchoClients = {"a", "b", "c"}
  MaxFd = 2
  MaxBytes = 1
  Files = {"f", "g"}
  FsRadix = 2
  WrittenVals = {0, 1}
  MaxCount = 3
  Threads = {"t", "u"}
  Priorities = {"err", "info"}
  Facilities = {"none"}
  MaxMsgs = 2
  MaxFaults = 1
  SeqBits = 2
  Addresses <- MCAddresses
  PacketLen = 1
  MaxPackets = 4
  MaxTrue = 4
  MaxSeconds = 1
  Groups = {"g", "h"}
  Sources = {1, 2, 6}
  McAddrBits = 3
  MAX_ADDRS = 3
  MaxCmds = 3
  FieldValues <- MCFrameFields
  RcvBuf = 2
  MaxFrames = 3
  MaxUnusual = 1
INVARIANTS
  AnswersBelong
  WaitsForAnAnswer
  MapIsNewest
  InotifyInOrder
  
  
  
  CounterFsRight
  
  MessagesAccounted
  
  FilterFollows
  CaptureExact
CHECK_DEADLOCK FALSE
