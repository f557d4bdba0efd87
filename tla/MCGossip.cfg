SPECIFICATION Spec
CONSTANTS
    Receivers = {r1, r2}
    Heartbeats = {h1, h2}
    Gossipers = {g1, g2}
    Peers = {p1}
    Vectors = {v1}
    Signatures = {s1}
    Rebinds <- MCRebinds
SYMMETRY Symmetry
INVARIANTS
    OneReceiver
    OnlyMembershipBlocks
CHECK_DEADLOCK FALSE
