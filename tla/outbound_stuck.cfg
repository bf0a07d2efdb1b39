\* A confirmation overwrites the event that settled the message.
SPECIFICATION Spec
CONSTANTS
    m1 = m1  i1 = i1  h1 = h1  h2 = h2  w1 = w1  w2 = w2  n1 = n1  n2 = n2
    MsgIds = {m1}
    OutIds = {m1}
    InIds = {}
    Http = {h1}
    Workers = {w1}
    Starter = starter
    NoCaller = nocaller
    Nodes = {}
    Methods = {"direct"}
    TargetSets = {}
    MaxRepeats = 0
    MaxRemovals = 0
    MaxRestarts = 0
INVARIANTS SendingAlwaysOwned
CHECK_DEADLOCK FALSE
