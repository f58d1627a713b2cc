\* Sizes in tenths of an inch or of a millimetre; the limit of pixels is the code's,
\* the errors of floats are far larger, so that every threshold is met within one.
SPECIFICATION Spec
CONSTANTS
  Grain = 2
  Order <- Orders
  Picture <- Pictures
  MaxPixels = 25000000
  Scale = 1000
  MaxError = 1
INVARIANTS TypeOK RepairedHasItsBleed BothSidesAreCovered
PROPERTIES ReportsAreTheRules RecheckSucceeds
CHECK_DEADLOCK FALSE
