\* XCLAIM FORCE on an entry not yet delivered.
SPECIFICATION Spec
CONSTANTS
    c1 = c1
    c2 = c2
    Groups = {g1}
    Consumers = {c1, c2}
    MaxMs = 2
    MaxSeq = 2
    MaxAdds = 2
    ExplicitIds <- MCIds
    Counts = {1, 2}
    AllowForce = TRUE
SYMMETRY ConsumerSymmetry
CHECK_DEADLOCK FALSE
INVARIANT OnePelOnly
