SPECIFICATION Spec
CONSTANTS
    r1 = r1
    r2 = r2
    none = none
INVARIANTS    CountsRight
 
SYMMETRY Symmetry
CHECK_DEADLOCK FALSE
