SPECIFICATION Spec
CONSTANTS
  u1 = u1
  u2 = u2
  Engine = engine
  Users <- MCUsers
  StatusValues <- MCStatusValues
  ControlValues <- MCControlValues
  ClearValues <- MCClearValues
  InjectValues <- MCInjectValues
SYMMETRY Symmetry
INVARIANT InterruptsExact
INVARIANT RegistersExact
INVARIANT ReadsAreCurrent
