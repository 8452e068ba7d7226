SPECIFICATION Spec
CONSTANTS
    r1 = r1
    r2 = r2
    r3 = r3
INVARIANTS   VerdictRight  
 
SYMMETRY Symmetry
CHECK_DEADLOCK FALSE
