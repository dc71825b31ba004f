SPECIFICATION Spec
CONSTANTS
    a = a
    b = b
    Pages = {a, b}
    MaxJoins = 2
    MaxToggles = 3
SYMMETRY PageSymmetry
CHECK_DEADLOCK FALSE
INVARIANTS GlareResolves
