SPECIFICATION Spec
CONSTANTS
  a1 = a1
  a2 = a2
  t1 = t1
  t2 = t2
  NoAgent = NoAgent
  NoToken = NoToken
  Agents <- TwoAgents
  Threads <- OneThread
  FirstThread = t1
  Closers = {}
  Tokens <- FiveTokens
  MaxStimuli = 6
  MaxAttempts = 2
  MaxDepth = 0
  MaxRounds = 4
  MaxPosts = 4
  AgentQuota = 1
  ThreadQuota = 4
  SelectMax = 2
  Retries = 0
  Continuous = TRUE
  Autonomous = FALSE
  Dormancy = FALSE
  VirtualTime = FALSE
  Cooldowns = FALSE
  InputKinds = {"mention", "human_post"}
  Environment = {"start", "pause", "step", "post"}
  MaxHumanPosts = 2
  MaxFaults = 0
  Faulty = {}
  MaxCrashes = 0
INVARIANTS
  AgentQuotaKept
