CONSTANTS
  Calls = {c1, c2, c3}
  Groups = {g1, g2}
  Modes = {"single", "sequence", "unknown"}
SPECIFICATION Spec
SYMMETRY Symmetry
CHECK_DEADLOCK FALSE
INVARIANT ModeHonoured
