\* Two circuits: requests are removed in front of a write in progress.
SPECIFICATION Spec
CONSTANTS
  NPvc = 2
  MaxReqs = 4
  MaxRequests = 5
INVARIANTS
  WriteIndexRight
