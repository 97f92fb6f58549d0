SPECIFICATION Spec
CONSTANTS
  None = None
  p = p
  q = q
  Requests = {p}
  MaxFixPasses = 2
  MaxContents = 3
  Faults = {"fail"}
INVARIANTS GreenIsSound
