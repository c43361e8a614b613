SPECIFICATION Spec
CONSTANTS
  a1 = a1
  a2 = a2
  t1 = t1
  t2 = t2
  NoAgent = NoAgent
  NoToken = NoToken
  Agents <- TwoAgents
  Threads <- TwoThreads
  FirstThread = t1
  Closers = {a1}
  Tokens <- FiveTokens
  MaxStimuli = 4
  MaxAttempts = 2
  MaxDepth = 1
  MaxRounds = 3
  MaxPosts = 3
  AgentQuota = 4
  ThreadQuota = 2
  SelectMax = 1
  Retries = 0
  Continuous = TRUE
  Autonomous = FALSE
  Dormancy = TRUE
  VirtualTime = FALSE
  Cooldowns = FALSE
  InputKinds = {"agent_post", "mention"}
  Environment = {"start", "status"}
  MaxHumanPosts = 0
  MaxFaults = 0
  Faulty = {}
  MaxCrashes = 0
CHECK_DEADLOCK FALSE
INVARIANTS
  TypeOK
PROPERTIES
  ThreadsWakeByRule
