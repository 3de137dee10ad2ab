SPECIFICATION Spec
CONSTANTS
  s1 = s1
  t1 = t1
  b1 = b1
  Items = {s1, t1}
  DocBundles = {b1}
  Kind <- TheKind
  Forms <- TheForms
  Categories = {"web", "onepage"}
  PerBundle = 1
  RedoLimit = 1
  MaxScore = 1
  MaxCycles = 2
  Absent = Absent
  NoCycle = NoCycle
INVARIANTS TypeOK PlanIsTheVerifiedOne ProductIsTheVerifiedOne OnlyChosenItemsChange MarkHasItsStep
PROPERTIES ReworkIsAllOrNothing RedoRunsOut
CHECK_DEADLOCK FALSE
