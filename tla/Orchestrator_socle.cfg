SPECIFICATION Spec
CONSTANTS
  fs = fs
  fa = fa
  fb = fb
  ts = ts
  ta = ta
  tb = tb
  tb2 = tb2
  d1 = d1
  d2 = d2
  None = None
  Whole = Whole
  FeatureOf <- MCFeatureOf
  Needs <- MCNeeds
  Features = {fs, fa, fb}
  Tasks = {ts, ta, tb}
  Wants <- MCWants
  Interactive = {ts}
  Later = {tb}
  Drains = {d1, d2}
  Scopes = {Whole, fa}
  MaxParallel = 2
  Faults = {"worker_failed"}
INVARIANTS SocleFirst DependenciesFirst GateAlert
SYMMETRY MCDrainSymmetry
