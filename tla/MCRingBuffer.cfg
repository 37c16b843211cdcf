SPECIFICATION Spec
CONSTANTS
  Byte = {a, b}
  Size = 4
PROPERTIES
  ImplementsFIFO
  BytesInOrder
