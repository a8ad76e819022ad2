SPECIFICATION Spec
CONSTANTS
  Pcbs = {p1, p2, p3}
  PoolSize = 2
  Keys = {1, 2, 3}
  NULL = NULL
INVARIANTS
  LinksIntact
  DescriptorsInOrder
PROPERTIES
  IsMapOfQueues
