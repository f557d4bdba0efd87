SPECIFICATION Spec
CONSTANTS
    Pids = {p1, p2}
    MaxEvents = 6
SYMMETRY Symmetry
INVARIANTS
    TablesAgree
    DangerousNeedsHandshake
