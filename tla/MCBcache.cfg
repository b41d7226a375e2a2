SPECIFICATION Spec
CONSTANTS
  Proc = {p1, p2}
  Block = {b1, b2, b3, b4}
  Val = {v1, v2}
  Buf = {f1, f2, f3}
  NoOne = NoOne
  MaxPins = 1
SYMMETRY Symmetry
PROPERTIES
  Coherent
