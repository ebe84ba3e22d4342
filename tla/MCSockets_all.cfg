SPECIFICATION Spec
CONSTANTS
  MaxWsClients = 2
  MaxFrames = 3
  WsRing = 4
  WsBuffer = 3
  WsSizes = {1, 2}
  MaxSockets = 2
  MaxDatagrams = 2
  MaxUdpCalls = 3
  UdpIds = 3
  Remotes <- RemotesDef
  Filters <- FiltersDef
  OcfBudgets <- OcfBudgetsDef
INVARIANTS
  MessagesIntact
  GoneAreClosed
  UdpReachesItsOwn
  SearchesDoNotMix
PROPERTIES
  WsFaultsExplained
