CONSTANTS
  Streams = {s1}
  Snappers = {}
  MaxFrames = 2
SPECIFICATION Spec
INVARIANT NoDuplicateFrames
