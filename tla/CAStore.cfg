CONSTANTS
  Process = {p1, p2, p3}
  Pair = {k1, k2, k3, k4, k5}
  Absent = Absent
  Torn = Torn
  Nil = Nil
SPECIFICATION Spec
SYMMETRY Symmetry
INVARIANTS TypeOK
PROPERTIES StaysSettled ImplementsRoot
