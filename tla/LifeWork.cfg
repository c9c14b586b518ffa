\* A session and an automation run, two pieces of work, two faults; only the
\* service thread resumes sessions.
SPECIFICATION Spec
CONSTANTS
    p = p
    c = c
    a = a
    Sessions = {p, a}
    Parent <- Alone
    Existing = {p}
    Managed = {p}
    Forks = {}
    Failing = {}
    Automations = {a}
    Edits = {e1, e2}
    Service = Service
    Gateway = Gateway
    Runner = Runner
    None = None
    MaxFaults = 2
SYMMETRY Symmetry
PROPERTY WorkNeverDropped
