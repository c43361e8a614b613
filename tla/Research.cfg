SPECIFICATION ResearchSpec
CONSTANTS
  a1 = a1
  a2 = a2
  c1 = c1
  NoAgent = NoAgent
  Agents <- TwoAgents
  Clients <- OneClient
  Keys = {"k"}
  AgentQuota = 1
  ThreadQuota = 2
  RootPosts = 3
  MaxRuns = 3
  MaxTurns = 2
  MaxForced = 2
  MaxOutside = 1
  SampleSizes = {1}
  ForkKinds = {TRUE}
SYMMETRY ResearchSymmetry
CHECK_DEADLOCK FALSE
INVARIANTS
  LineageKeepsQuota
  AliasesResolve
  SampledAtTheMoment
  AnsweredForkHasStarted
