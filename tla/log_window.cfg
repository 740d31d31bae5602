SPECIFICATION Spec
CONSTANTS
  t1 = t1
  t2 = t2
  m1 = m1
  m2 = m2
  d1 = d1
  d2 = d2
  blank = blank
  Threads <- MCThreads
  Texts <- MCTexts
  Times <- MCTimes
  Blank = blank
  Height = 2
  Width = 3
SYMMETRY Symmetry
INVARIANTS
  LoneLineIsWhole
  MixingEnds
  IInv
