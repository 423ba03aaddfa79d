SPECIFICATION FairSpec
CONSTANTS
  f1 = f1
  f2 = f2
  f3 = f3
  a = a
  b = b
  t = t
  u = u
  NoFd = NoFd
  NoId = NoId
  NoTopic = NoTopic
  NoParam = NoParam
  NoCont = NoCont
  Fds <- MCFds2
  Ids <- MCIds
  Topics <- MCTopics
  ConnReqs <- WithoutId
  WriteFails = TRUE
  NewTicks = 2
  KpTicks = 1
INVARIANTS RegistryLive AuthSubscribed
PROPERTIES ImplementsPubSub CallbackEnds NewResolved HalfOpenReleased
