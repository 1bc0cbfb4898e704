SPECIFICATION BuffersSpec
CONSTANTS
  Capacity = 2
  Modes = {TRUE, FALSE}
  Lists = {l1, l2, l3, l4}
  MaxBatches = 5
  Slabs = {s1, s2, s3}
  Threads = {t1, t2, t3}
  Null = Null
INVARIANTS ListsNotShared NoStalePackets NoLostWakeup SlabsConserved PoolNoLostWakeup
PROPERTIES ImplementsBoundedQueue EndReachesBoth
