SPECIFICATION Spec
CONSTANTS
    first = first
    second = second
    Owners = {o1}
    Instance = o1
    Pairings = {p1}
    Invitations = {first, second}
    Agents = {}
    MaxAttempts = 2
    MaxDecisions = 4
    MaxTokens = 3
    MaxFaults = 1
ACTION_CONSTRAINTS Named Undisturbed
INVARIANTS SessionsBelong VaultKeepsOwner
PROPERTIES WaitingEnds
CHECK_DEADLOCK FALSE
