CONSTANTS
  Element = {a, b, c}
  Undefined = Undefined
  Size = 4
  AlmostFullGap = 2
  RefillLast = TRUE
SPECIFICATION Spec
INVARIANT HeadAvailable
