\* Three events through a buffer and a pipe of one, three crashes or closes, a failed
\* database call, and a restore that any of them may interrupt.
SPECIFICATION Spec
CONSTANTS
    a = a
    b = b
    None = None
    Notes = {a, b}
    Interval = 2
    Buffer = 1
    Pipe = 1
    MaxEvents = 3
    MaxEnds = 3
    MaxFaults = 1
SYMMETRY Symmetry
CHECK_DEADLOCK FALSE
INVARIANTS NumbersAreNew ScreenIsLog NothingLost OrderKept NotesKept
