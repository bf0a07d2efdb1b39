\* Two conversations and writers, a poll, a lost connection and a failed refresh.
SPECIFICATION FairSpec
CONSTANTS
    c1 = c1  c2 = c2  t1 = t1  t2 = t2  f1 = f1  f2 = f2
    Conversations = {c1, c2}
    Writers = {t1, t2}
    Fetches = {f1, f2}
    MaxWrites = 1
    MaxDrops = 1
    MaxFailures = 1
    MaxPolls = 1
INVARIANTS TypeOK UpdateComing
PROPERTIES ShownNeverBack UpdatesShown
CHECK_DEADLOCK FALSE
