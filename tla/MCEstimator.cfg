SPECIFICATION MCSpec
CONSTANTS
  Parts = {"probes", "estimate"}
  Demands = {120}
  Estimates = {30, 100}
  Causes = {"delay", "delay_increased", "loss"}
  Outcomes = {"none", "saturated"}
  MinProbeRate = 1
  ResultWait = 3
  AlrEnded = 1
  DropTimeout = 2
  AlrInterval = 4
  RecentWindow = 2
  StagnantTime = 3
  MaxBackoff = 2
  Initial = 2
  MinRate = 1
  MaxRate = 4
  Delivered = {1, 2}
  Probed = {4}
  Candidates = {1}
  Bounds = {2}
  Steps = {1}
  Slack = 1
  Sigma = 1
  DiscreditAfter = 2
  ReduceInterval = 2
  ValidFor = 1
  ResetWindow = 2
  StartupPhase = 1
INVARIANTS
  CollapseSeen
  ProbeAdopted
PROPERTIES
  NoRepeatInFlight
  ProbingResumes
  SpikeSpares
  CongestionBites
