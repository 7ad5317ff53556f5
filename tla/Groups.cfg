\* Consumer groups without XCLAIM FORCE: delivery, acknowledgement and claims.
SPECIFICATION Spec
CONSTANTS
    c1 = c1
    c2 = c2
    Groups = {g1}
    Consumers = {c1, c2}
    MaxMs = 2
    MaxSeq = 2
    MaxAdds = 3
    ExplicitIds <- MCIds
    Counts = {1, 2}
    AllowForce = FALSE
SYMMETRY ConsumerSymmetry
CHECK_DEADLOCK FALSE
INVARIANTS NoEntrySkipped ScanClaimsAllIdle
PROPERTIES LastIdMonotone ImplementsQueue
