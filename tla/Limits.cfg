SPECIFICATION Spec
CONSTANTS
  a1 = a1
  a2 = a2
  t1 = t1
  t2 = t2
  NoAgent = NoAgent
  NoToken = NoToken
  Agents <- TwoAgents
  Threads <- OneThread
  FirstThread = t1
  Closers = {}
  Tokens <- FiveTokens
  MaxStimuli = 4
  MaxAttempts = 2
  MaxDepth = 0
  MaxRounds = 2
  MaxPosts = 3
  AgentQuota = 4
  ThreadQuota = 1
  SelectMax = 1
  Retries = 1
  Continuous = TRUE
  Autonomous = FALSE
  Dormancy = TRUE
  VirtualTime = FALSE
  Cooldowns = FALSE
  InputKinds = {"human_post", "new_evidence"}
  Environment = {"start", "pause", "step", "post", "wake"}
  MaxHumanPosts = 1
  MaxFaults = 0
  Faulty = {}
  MaxCrashes = 0
CHECK_DEADLOCK FALSE
INVARIANTS
  LimitsKept
  RevisitsFollowPosts
