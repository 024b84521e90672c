CONSTANTS
  PipeSize = 2
  PipeWrap = 4
  PAGE_ENTRIES = 3
  Laps = 3
  UdpClients = {u1, u2}
  Lines = 2
  TcpClients = {t1, t2}
  Bytes = 2
  MaxFd = 2
  Name = {"a", "a_symlink", "hard_link", "dir"}
  Ino = {1, 2, 3}
  SymName <- SymNames
  Packed = {"a"}
  Modes = {{}, {"r", "w"}}
  DirName <- Here
  FileNames <- NamesHere
  MaxSize = 4
  IntHalf = 3
SPECIFICATION AllSpec
INVARIANTS ReportsTruth GapsAreReal NothingKept Echoed CopyReversed NamesMirrored
PROPERTIES NamedDataLost Ending Answering
CHECK_DEADLOCK FALSE
