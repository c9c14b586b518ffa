\* One fork whose runtime dies and that two tasks resume.
SPECIFICATION Spec
CONSTANTS
    p = p
    c = c
    a = a
    Sessions = {p}
    Parent <- Alone
    Existing = {p}
    Managed = {p}
    Forks = {p}
    Failing = {}
    Automations = {}
    Edits = {e1}
    Service = Service
    Gateway = Gateway
    Runner = Runner
    None = None
    MaxFaults = 1
PROPERTY CaptureIsFinal
