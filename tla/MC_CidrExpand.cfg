SPECIFICATION Spec
CONSTANT Segments <- SmallCaps
CHECK_DEADLOCK FALSE
INVARIANTS
  InSegment
  NoRepeat
  SampleSound
PROPERTY Dwindles
