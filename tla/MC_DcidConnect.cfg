SPECIFICATION FairSpec
CONSTANTS
  chosen = chosen
  drawn = drawn
  s1 = s1
  s2 = s2
  s3 = s3
  Chosen = chosen
  Drawn = drawn
  ServerIds = {s1, s2, s3}
CHECK_DEADLOCK FALSE
INVARIANTS
  HandshakeSound
PROPERTIES
  Connects
