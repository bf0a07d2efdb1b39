\* One identity started with the application, two requests, a failed start.
SPECIFICATION FairSpec
CONSTANTS
    t1 = t1  t2 = t2  i1 = i1  i2 = i2
    Threads = {t1, t2}
    Starter = t1
    Identities = {i1}
    Enabled = {i1}
    MaxProcesses = 3
    MaxEngines = 3
    MaxOps = 2
    MaxFailures = 1
INVARIANTS TypeOK AliveIsKnown OneWorkerPerIdentity RestartBringsBack
PROPERTIES RequestsEnd
CHECK_DEADLOCK FALSE
