SPECIFICATION FairSpec
CONSTANTS
  Threads = {t1, t2}
  Objects = {o1}
  NoThread = NoThread
  NoObject = NoObject
  MaxEpoch = 2
  StoreBufferSize = 1
INVARIANTS NoUseAfterReclaim IndInv
PROPERTIES GracePeriodHolds Reclamation
