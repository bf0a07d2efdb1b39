\* Two concurrent HTTP requests, an inbound message, a restart of the controller.
SPECIFICATION Spec
CONSTANTS
    m1 = m1  i1 = i1  h1 = h1  h2 = h2  w1 = w1  w2 = w2  n1 = n1  n2 = n2
    MsgIds = {m1, i1}
    OutIds = {m1}
    InIds = {i1}
    Http = {h1, h2}
    Workers = {w1}
    Starter = starter
    NoCaller = nocaller
    Nodes = {}
    Methods = {"direct"}
    TargetSets = {}
    MaxRepeats = 0
    MaxRemovals = 1
    MaxRestarts = 1
SYMMETRY Symmetry
INVARIANTS TypeOK ErrorMatchesState SuccessWasReported SendingIsOwned
CHECK_DEADLOCK FALSE
