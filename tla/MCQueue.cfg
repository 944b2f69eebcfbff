CONSTANTS
  p1 = p1
  p2 = p2
  c1 = c1
  c2 = c2
  a = a
  b = b
  NoItem = NoItem
  Producers <- MCProducers
  Consumers <- MCConsumers
  Items <- MCItems
  QUEUE_SIZE = 2
SPECIFICATION Spec
INVARIANT QInv
PROPERTIES NoneStranded ImplementsFifo
