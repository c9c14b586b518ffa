\* Two follow-ups of the developer, moved, paused and removed while the agent
\* works; one crash or failed database call.
SPECIFICATION Spec
CONSTANTS
    Items = {a, b}
    Messages = {}
    Notices = {}
    Direct = Direct
    None = None
    MaxPosition = 2
    MaxRows = 2
    MaxEdits = 0
    MaxEvents = 1
    MaxFaults = 1
SYMMETRY Symmetry
INVARIANTS
    AtMostOnce NoPhantomDelivery CachedPendingIsCurrent
PROPERTY RetiredAfterTurn
