\* Two incarnations of the worker, both message modes, under fairness.
SPECIFICATION FairSpec
CONSTANTS
    m1 = m1  i1 = i1  h1 = h1  h2 = h2  w1 = w1  w2 = w2  n1 = n1  n2 = n2
    MsgIds = {m1}
    OutIds = {m1}
    InIds = {}
    Http = {h1}
    Workers = {w1, w2}
    Starter = starter
    NoCaller = nocaller
    Nodes = {n1}
    Methods = {"direct", "propagation"}
    TargetSets = {{}, {n1}}
    MaxRepeats = 0
    MaxRemovals = 0
    MaxRestarts = 0
PROPERTIES SendingResolves
CHECK_DEADLOCK FALSE
