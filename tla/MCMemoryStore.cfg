SPECIFICATION StoreSpec
CONSTANTS
    Ids = {i1, i2, i3}
    Keys = {k1, k2, k3}
    Ttls = {0, 2}
    MaxEntries = 2
    MaxTime = 4
    MaxTtl = 2
    MaxCount = 2
SYMMETRY Alike
INVARIANTS Bounded
PROPERTIES ThrowsOnlyWhenFull KeepsPromise
