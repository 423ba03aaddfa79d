SPECIFICATION Spec
CONSTANTS
  f1 = f1
  f2 = f2
  f3 = f3
  a = a
  b = b
  t = t
  u = u
  NoFd = NoFd
  NoId = NoId
  NoTopic = NoTopic
  NoParam = NoParam
  NoCont = NoCont
  Fds <- MCFds
  Ids <- MCIds
  Topics <- MCTopics
  ConnReqs <- OneEach
  WriteFails = FALSE
  NewTicks = 0
  KpTicks = 0
SYMMETRY Symmetry
INVARIANTS UniqueIds
