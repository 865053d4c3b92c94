\* Two servers and two callers that report two results in all; two updates or loads of
\* a configuration, one node event or crash of the agent.  Ratios are the defaults of
\* commstruct.h, but for LowRatio (50) and RequestMin (10): with two servers and two
\* results only lower values lead to the branches they guard.
SPECIFICATION Spec
CONSTANTS
  Servers = {1, 2}
  Callers = {u, v}
  WeightStatic = 4
  SuccessBase = 98
  SuccessMin = 60
  ResumeWeight = 10
  WeightIncr = 5
  LowWatermark = 50
  LowRatio = 40
  RequestMin = 2
  MaxResults = 2
  MaxRounds = 2
  MaxFaults = 1
  u = u
  v = v
SYMMETRY Symmetry
INVARIANTS Conserved Shares FewProbes
\* It stops when callers, updates and faults have used up their bounds.
CHECK_DEADLOCK FALSE
