CONSTANTS
    Gone = Gone
    Conflict = Conflict
    d1 = d1
    d2 = d2
    Devices = {d1, d2}
    Kinds = {"settings"}
    MaxEdits = 2
    MaxChoices = 0
    MaxFaults = 0
    MaxEvents = 2
    MaxRevisions = 8
SPECIFICATION Spec
INVARIANTS LastWriterWon
CHECK_DEADLOCK FALSE
