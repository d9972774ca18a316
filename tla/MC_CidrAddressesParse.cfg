SPECIFICATION Spec
CONSTANT Segments <- Regions
CHECK_DEADLOCK FALSE
INVARIANTS
  AddressesParse
