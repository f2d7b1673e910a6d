SPECIFICATION FairSpec
CONSTANTS
  Nomads = {n1, n2, n3}
  Demons = {d1, d2}
  SEMVMX = 6
INVARIANTS HouseDescribed NoLostWakeup
PROPERTIES VisitEnds SleepersWoken Refines
