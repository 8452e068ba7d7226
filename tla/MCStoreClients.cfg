SPECIFICATION FairSpec
CONSTANTS
  alice = alice
  bob = bob
  r1 = r1
  k1 = k1
  Consumers = {alice, bob}
  Others = {r1}
  Keys = {k1}
  Producers = {p1, p2}
  Batches <- MCBatches
  PlainEvents <- MCPlainEvents
INVARIANT StoreConsistent
PROPERTIES
  AckedIsApplied
  ImplementsContract
  CallsReturn
