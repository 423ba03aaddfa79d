SPECIFICATION FairSpec
CONSTANTS
  p1 = p1
  User = User
  Reader = Reader
  Ping = Ping
  Nobody = Nobody
  Publishers <- MCPublishers
  Cap = 4
  Keepalive = 1
  MaxIn = 1
  MaxPub = 1
INVARIANTS TypeOK DisconnectedOnce TornOnlyWhenOvertaken TrueMeansWritten EndAfterLastMessage TimeoutOnlyWhenSilent
PROPERTIES SilenceNoticed
CHECK_DEADLOCK FALSE
