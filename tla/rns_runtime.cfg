\* Two interfaces, one change, one request; announces one second apart.
SPECIFICATION RuntimeSpec
CONSTANTS
    t1 = t1
    Interfaces <- TwoInterfaces
    Callers = {t1}
    Interval = 1
    MaxTime = 2
    MaxChanges = 1
    MaxCalls = 1
    Candidates = 1
INVARIANTS RuntimeTypeOK NoLinkLeft
PROPERTIES AnnouncesPaced ChangesNoticed UsersEnd
CHECK_DEADLOCK FALSE
