\* A grayscale picture that the service can repair.
SPECIFICATION Spec
CONSTANTS
  Grain = 2
  Order <- Orders
  Picture <- Pictures
  MaxPixels = 25000000
  Scale = 1000
  MaxError = 1
PROPERTIES SupportedModesArrive
CHECK_DEADLOCK FALSE
