CONSTANTS
    e1 = e1
    e2 = e2
    e3 = e3
SPECIFICATION Spec
CHECK_DEADLOCK FALSE
INVARIANTS
    TypeOK
    WritesKept
    SyncKept
    SessionsKept
    BotsKept
    TasksKept
