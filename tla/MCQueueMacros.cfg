CONSTANTS
    Heads = {h1, h2}
    Elems = {e1, e2, e3, e4}
    NULL = NULL

SYMMETRY Symmetry

SPECIFICATION Spec

INVARIANTS
    ChecksHold
    BackwardsAgrees

PROPERTIES
    ImplementsQueues
