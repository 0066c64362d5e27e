CONSTANTS
  Element = {a, b, c}
  Undefined = Undefined
  Size = 4
  AlmostFullGap = 2
  RefillLast = FALSE
SPECIFICATION Spec
INVARIANTS TypeOK AlmostFullLeavesRoom
PROPERTIES ImplementsQueue StoredBecomesVisible
