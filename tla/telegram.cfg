CONSTANTS
    Tokens = {A, B}
    Accounts = {u1, u2}
    Kinds = {"start", "act", "confirm", "cancel", "add", "wizard"}
    MaxUpdates = 2
    MaxEvents = 2
    Attempts = 2
SPECIFICATION Spec
CHECK_DEADLOCK FALSE
INVARIANTS AtMostOnce
PROPERTIES VoidPassesNoCheck UpdatesAreTaken
