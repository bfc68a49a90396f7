\* Three objects, ticks and turns that differ.
SPECIFICATION Spec
CONSTANTS
  MaxId = 3
  Freq = {0, 1, 2}
  TickPeriod = 2
INVARIANTS
  ListSound
  WalkIsComplete
  MemorySound
  SaveLosesNothing
PROPERTIES
  OncePerTick
