SPECIFICATION RunLockSpec
CONSTANTS
  loop1 = loop1
  click1 = click1
  click2 = click2
  free = free
  NoOwner <- free
  Loops <- MCLoops
  OneShots <- MCClicks
  MaxCrashes = 1
CHECK_DEADLOCK FALSE
INVARIANTS OneCycleAtATime
