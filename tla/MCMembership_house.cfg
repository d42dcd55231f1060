SPECIFICATION Spec
CONSTANTS
    first = first
    second = second
    Owners = {o1, o2}
    Instance = o1
    Pairings = {p1, p2}
    Invitations = {}
    Agents = {a1, a2}
    MaxAttempts = 2
    MaxDecisions = 4
    MaxTokens = 3
    MaxFaults = 1
SYMMETRY Symmetry
INVARIANTS NoAgentStranded
PROPERTIES PairingRecoverable
CHECK_DEADLOCK FALSE
