SPECIFICATION Spec
CONSTANTS
  NumBeams = 2
  RingCapacity = 1
  ListCapacity = 2
  ThrowChoices = {{}}
  AcceptEos = FALSE
  Callers = {c1}
  MaxPackets = 3
INVARIANT EndStreamIsClean
