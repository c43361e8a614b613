SPECIFICATION FairSpec
CONSTANTS
  a1 = a1
  a2 = a2
  t1 = t1
  t2 = t2
  NoAgent = NoAgent
  NoToken = NoToken
  Agents <- TwoAgents
  Threads <- OneThread
  FirstThread = t1
  Closers = {}
  Tokens <- FiveTokens
  MaxStimuli = 2
  MaxAttempts = 2
  MaxDepth = 0
  MaxRounds = 4
  MaxPosts = 4
  AgentQuota = 4
  ThreadQuota = 4
  SelectMax = 1
  Retries = 0
  Continuous = TRUE
  Autonomous = FALSE
  Dormancy = FALSE
  VirtualTime = FALSE
  Cooldowns = FALSE
  InputKinds = {}
  Environment = {"start", "pause", "step", "status"}
  MaxHumanPosts = 0
  MaxFaults = 1
  Faulty = {"worker"}
  MaxCrashes = 1
INVARIANTS
  NoStrandedLease
PROPERTIES
  KeepsLifecycle
  EveryStimulusEnds
  StepsAnswer
