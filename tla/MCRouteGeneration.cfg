SPECIFICATION MCSpec
CONSTANTS
    Threads = {t1, t2}
    Gens = {g1, g2}
    First = g1
    NoGen = NoGen
    MaxItems = 1
    r1 = r1
    r2 = r2
    r3 = r3
    route = route
    alice = alice
    NoKey = NoKey
    k1 = k1
    k2 = k2
INVARIANTS PublicationRight CountExact NoUseAfterStop LimitersRight
PROPERTIES ImplementsContract RefusalsRight AllSettles
