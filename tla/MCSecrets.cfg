SPECIFICATION MCSpec
CONSTANTS
  alice = alice
  bob = bob
  r1 = r1
  k1 = k1
  k2 = k2
  q1 = q1
  q2 = q2
  NoKey = NoKey
  W = W
  Consumers = {alice, bob}
  Others = {r1}
  Keys = {k1}
  Producers = {W}
  Writes <- MCWrites
  MaxRevision = 3
  MaxFaults = 2
INVARIANT SecretsReplaced
CHECK_DEADLOCK FALSE
