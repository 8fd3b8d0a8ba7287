SPECIFICATION Spec
CONSTANTS
  KeyDomain = {k1, k2, k3}
  MaxKeys = 3
  None = None
PROPERTIES
  ImplementsSet
