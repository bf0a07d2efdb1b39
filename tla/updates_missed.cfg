\* A change that arrives while a refresh is under way is ignored.
SPECIFICATION Spec
CONSTANTS
    c1 = c1  c2 = c2  t1 = t1  t2 = t2  f1 = f1  f2 = f2
    Conversations = {c1}
    Writers = {t1}
    Fetches = {f1}
    MaxWrites = 2
    MaxDrops = 0
    MaxFailures = 0
    MaxPolls = 0
INVARIANTS NoMessageMissed
CHECK_DEADLOCK FALSE
