\* Propagation to two nodes and a repeat that meets late events of the first attempt.
SPECIFICATION Spec
CONSTANTS
    m1 = m1  i1 = i1  h1 = h1  h2 = h2  w1 = w1  w2 = w2  n1 = n1  n2 = n2
    MsgIds = {m1}
    OutIds = {m1}
    InIds = {}
    Http = {h1}
    Workers = {w1}
    Starter = starter
    NoCaller = nocaller
    Nodes = {n1, n2}
    Methods = {"propagation"}
    TargetSets = {{n1, n2}}
    MaxRepeats = 1
    MaxRemovals = 0
    MaxRestarts = 0
SYMMETRY Symmetry
INVARIANTS ResultsMatchNodes CountMatchesResults
PROPERTIES RetryOnlySettled
CHECK_DEADLOCK FALSE
