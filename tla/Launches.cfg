\* A user, and an agent with a create and a fork call that it may repeat; two
\* sessions at most, two names, two failed steps or crashes.
SPECIFICATION Spec
CONSTANTS
    s1 = s1
    s2 = s2
    Sessions = {s1, s2}
    Creates = {create}
    create = create
    Forks = {fork}
    fork = fork
    Names = {1, 2}
    Service = Service
    Gateway = Gateway
    None = None
    MaxFaults = 2
SYMMETRY Symmetry
INVARIANTS KickoffDelivered NothingLeftBehind
PROPERTY WorkKept
CHECK_DEADLOCK FALSE
