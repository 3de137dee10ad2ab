SPECIFICATION FairSpec
CONSTANTS
  Workers = {w1, w2}
  Deciders = {d1}
  Reworkers = {r1}
  Aborters = {a1}
  NoOwner = NoOwner
  NoCopy = NoCopy
  MaxLeft = 1
  MaxResume = 1
  MaxRedo = 1
  MaxFaults = 1
INVARIANTS TypeOK CopyIsCurrent AtMostOneLateStep
PROPERTIES NoWorkWhileCollecting FinalStays LifeSpec WorkSettles
