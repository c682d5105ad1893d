SPECIFICATION Spec
CONSTANTS
  r1 = r1
  poll = poll
  Enabled = {1, 2, 3}
  Reqs = {r1}
  Poller = poll
  MaxVersion = 2
PROPERTY FailedBootLeavesNothing
