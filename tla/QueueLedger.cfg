\* One message from another session, or one plan notice: edited by the developer,
\* withdrawn by another task, expired by a restart; one fault.
SPECIFICATION Spec
CONSTANTS
    Items = {m, n}
    Messages = {m}
    Notices = {n}
    Direct = Direct
    None = None
    MaxPosition = 1
    MaxRows = 1
    MaxEdits = 1
    MaxEvents = 1
    MaxFaults = 1
INVARIANT LedgerMatchesQueue
PROPERTIES TranscriptNotRepeated PromiseKept
