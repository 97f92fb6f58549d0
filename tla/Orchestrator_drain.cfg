SPECIFICATION FairSpec
CONSTANTS
  fs = fs
  fa = fa
  fb = fb
  ts = ts
  ta = ta
  tb = tb
  tb2 = tb2
  d1 = d1
  d2 = d2
  None = None
  Whole = Whole
  FeatureOf <- MCFeatureOf
  Needs <- MCNeeds
  Features = {fa, fb}
  Tasks = {ta, tb, tb2}
  Wants <- MCFree
  Interactive = {}
  Later = {}
  Drains = {d1}
  Scopes = {Whole, fb}
  MaxParallel = 2
  Faults = {"worker_failed", "interrupted", "git", "raised", "rate_limited", "abort"}
PROPERTIES NoSilentBlock Terminates KilledStaysDown
