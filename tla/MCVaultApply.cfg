CONSTANTS
    Gone = Gone
    Conflict = Conflict
    d1 = d1
    d2 = d2
    Devices = {d1, d2}
    Kinds = {"note", "attachment"}
    MaxEdits = 2
    MaxChoices = 1
    MaxFaults = 1
    MaxEvents = 3
    MaxRevisions = 12
SPECIFICATION MCSpec
SYMMETRY Symmetry
INVARIANTS NoEditLost NothingHidden QueueDeliverable RestsSettled
CHECK_DEADLOCK FALSE
