SPECIFICATION Spec
CONSTANTS
  fa = fa
  fb = fb
  ta = ta
  tb = tb
  m1 = m1
  m2 = m2
  None = None
  Features = {fa, fb}
  Tasks = {ta, tb}
  FeatureOf <- MCFeatureOf
  Mergers = {m1}
  MaxTries = 1
  Faults = {"redrain", "crash", "conflict", "fail"}
  Overlap = FALSE
INVARIANTS DoneWorkIsKept
PROPERTIES HistoryIsKept
CHECK_DEADLOCK FALSE
SYMMETRY MCSymmetry
