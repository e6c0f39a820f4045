\* Two messages, three wrappers: kept, answered late, emitted again on cancellation.
SPECIFICATION Spec
CONSTANTS
  Messages = {m1, m2}
  Wrappers = {w1, w2, w3}
  Null = Null
SYMMETRY WrapperSymmetry
INVARIANTS MessageRefsExact NeverUsedFreed NoMessageLeaks
CHECK_DEADLOCK FALSE
