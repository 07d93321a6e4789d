SPECIFICATION FairSpec
CONSTANTS
  Workers = {w1, w2}
  Main = Main
  Reclaimer = Reclaimer
  Tasks = {k1, k2}
CHECK_DEADLOCK FALSE
INVARIANTS OneOwner NoUseAfterFree AllReleased
PROPERTIES ShutdownEnds
