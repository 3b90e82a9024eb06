SPECIFICATION Spec
CONSTANTS
  Callers = {c1, c2}
  NoRet = NoRet
SYMMETRY Symmetry
INVARIANTS TrueIsSuccess  
CHECK_DEADLOCK FALSE
