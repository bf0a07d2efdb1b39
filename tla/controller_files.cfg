\* Two releases, two propagation nodes, two threads; one kill or failure.
SPECIFICATION FilesSpec
CONSTANTS
    t1 = t1  t2 = t2  v1 = v1  v2 = v2  stub = stub
    nobody = nobody  n1 = n1  n2 = n2  given = given  default = default  forgotten = forgotten
    Threads = {t1, t2}
    Versions = {v1, v2}
    Stub = stub
    Nobody = nobody
    Nodes = {n1, n2}
    NodeNames = {given}
    DefaultName = default
    Forgotten = forgotten
    MaxOps = 3
    MaxStops = 1
SYMMETRY Symmetry
INVARIANTS FilesTypeOK StartsFromConfig InUseIsNamed FeatureFilesMatch RegistryExclusive
PROPERTIES OldUntilNew RegistryIsAtomic
CHECK_DEADLOCK FALSE
