SPECIFICATION Spec
CONSTANTS
  loop1 = loop1
  loop2 = loop2
  click1 = click1
  click2 = click2
  bot1 = bot1
  bot2 = bot2
  bot3 = bot3
  nobody = nobody
  step1 = step1
  NoOwner <- nobody
  Loops <- MCLoops
  OneShots <- MCClicks
  MaxCrashes = 1
  Procs <- MCProcs
  Machine <- MCMachine
  NoProc <- nobody
  Sends <- MCSends
  Validity = 1
  MaxHeight = 3
  Files0 <- MCFiles0
  MaxFaults = 2
CHECK_DEADLOCK FALSE
INVARIANTS
  OneCycleWhileAllLive NoChangeLost KeyKept
PROPERTIES
  LocksComeFree LaunchSettles
