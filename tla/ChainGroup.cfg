SPECIFICATION Spec
CONSTANTS
    Groups = {g1, g2}
    Chains = {c1}
    Middlewares = {a, b}
    MaxArgs = 1
    MaxLen = 3
    MaxSpare = 1
    CallerSpare = 0
SYMMETRY Symmetry
INVARIANTS
    TypeOK
    FirstIsOutermost
PROPERTIES
    ImplementsGroups
CHECK_DEADLOCK FALSE
