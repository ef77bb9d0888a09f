CONSTANTS
  Controllers = {c1, c2}
  Kinds <- RawDisk
  MaxFaults = 1
SPECIFICATION Spec
INVARIANTS
  UsedImageWhole
