SPECIFICATION FairSpec
CONSTANTS
  Threads = {t1, t2}
  Types = {y1, y2}
  Bridges = {b1, b2}
  None = None
  LinkFails = TRUE
  InnerFlush = TRUE
  MaxICEpoch = 1
  MaxEpoch = 2
CHECK_DEADLOCK FALSE
INVARIANTS NoModuleLost FreshCode
PROPERTIES CallsEnd
