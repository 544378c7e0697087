SPECIFICATION FairSpec
CONSTANTS
  Clients = {c1, c2}
  NoConn = NoConn
  MaxFails = 1
  SERV_BUF = 2
  LineLens = {1, 3}
  FileLens = {2}
  MaxFds = 2
  Talkers = {k1, k2}
  BUFINIT = 2
  MaxAddrs = 2
  MaxReply = 3
  MaxDups = 1
  CAPINIT = 2
  MaxLine = 5
  MaxLines = 2
  TABLE_SPACE = 2
  Dishes = {1, 2, 3}
  MaxOrders = 5
INVARIANTS
  LinesFit
  ZombiesNoticed
  NoForeignConnection
  GreetedOnce
  RequestsServed
  CleanedUp
PROPERTIES
  TableIsLfu
  ServersGoOn
\* Nobody need connect to the forking server any more.
CHECK_DEADLOCK FALSE
