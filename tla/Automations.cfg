\* One automation with a condition, every two minutes or at two times of its
\* calendar; two runs, two edits, a failed call, a stray event or a crash.
SPECIFICATION FairSpec
CONSTANTS
    a = a
    r1 = r1
    r2 = r2
    Autos = {a}
    Conditional = {a}
    Runs = {r1, r2}
    Intervals = {2}
    Calendars = {{1, 2}}
    Grain = 2
    None = None
    MaxTime = 2
    MaxEdits = 2
    MaxTroubles = 1
INVARIANTS EachOccurrenceOnce OneRunUnderWay SessionsAccounted TurnIsOver
PROPERTY DueIsServed
CHECK_DEADLOCK FALSE
