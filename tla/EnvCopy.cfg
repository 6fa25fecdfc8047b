SPECIFICATION Spec
CONSTANTS
  Items <- SmallItems
  Cap = 3
  Failures = TRUE
  MaxSpurious = 3
INVARIANTS PagesInPlace ResultIsTrue IInv
PROPERTIES HandedUntouched CopyEnds
CHECK_DEADLOCK FALSE   \* the copy ends
