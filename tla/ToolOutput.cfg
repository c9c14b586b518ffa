\* Two calls and one shell that both can use; two partial results, one restart that
\* restores one chunk.
SPECIFICATION Spec
CONSTANTS
    c1 = c1
    c2 = c2
    p = p
    q = q
    None = None
    Calls = {c1, c2}
    Shells = {sh}
    sh = sh
    Chunks = {p, q}
    Results <- Texts
    Window = 1
    MaxPartials = 2
    MaxRestarts = 1
CHECK_DEADLOCK FALSE
SYMMETRY Symmetry
INVARIANTS ShownIsStored SentIsStored
PROPERTY ExitIsFinal
