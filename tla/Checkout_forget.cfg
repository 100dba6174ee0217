CONSTANTS
  c1 = c1  c2 = c2  c3 = c3  c4 = c4
  Attempts = {c1, c2, c3, c4}
  None = none
SYMMETRY AnyOrder
SPECIFICATION CheckoutSpec
INVARIANT AtMostOnePayable
CHECK_DEADLOCK FALSE
