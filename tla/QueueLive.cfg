\* Two follow-ups; sessions close, quit and come back, nothing fails.
SPECIFICATION FairSpec
CONSTANTS
    Items = {a, b}
    Messages = {}
    Notices = {}
    Direct = Direct
    None = None
    MaxPosition = 2
    MaxRows = 2
    MaxEdits = 0
    MaxEvents = 1
    MaxFaults = 0
PROPERTY FollowUpsDrain
