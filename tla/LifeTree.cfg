\* A parent and a child that is launched, may fail to start, and may be resumed
\* by the host tools; whole trees are archived and deleted by two tasks, whose
\* operations wait for the lock and refuse each other's guards; one fault.
SPECIFICATION FairSpec
CONSTANTS
    p = p
    c = c
    a = a
    Sessions = {p, c}
    Parent <- Family
    Existing = {p}
    Managed = {p, c}
    Forks = {c}
    Failing = {c}
    Automations = {}
    Edits = {}
    Service = Service
    Gateway = Gateway
    Runner = Runner
    None = None
    MaxFaults = 1
INVARIANTS TypeOK HiddenNotRunning NothingHeldAtRest
PROPERTIES ArchiveStaysReduced ChildGoneFirst OperationsEnd
