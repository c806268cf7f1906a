CONSTANTS
  p1 = p1  p2 = p2  c1 = c1  c2 = c2  Uninit = Uninit
  Producers <- MCProducers
  Consumers <- MCConsumers
  prio <- MCPrio
  N = 2  W = 4  Base = 3
  Loads <- MCLoads
SPECIFICATION FairSpec
INVARIANT NoSlotRace
PROPERTIES ImplementsQueue CallsEnd
