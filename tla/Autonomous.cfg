SPECIFICATION Spec
CONSTANTS
  a1 = a1
  a2 = a2
  t1 = t1
  t2 = t2
  NoAgent = NoAgent
  NoToken = NoToken
  Agents <- TwoAgents
  Threads <- OneThread
  FirstThread = t1
  Closers = {}
  Tokens <- FiveTokens
  MaxStimuli = 5
  MaxAttempts = 2
  MaxDepth = 1
  MaxRounds = 3
  MaxPosts = 4
  AgentQuota = 4
  ThreadQuota = 4
  SelectMax = 2
  Retries = 0
  Continuous = TRUE
  Autonomous = TRUE
  Dormancy = FALSE
  VirtualTime = TRUE
  Cooldowns = TRUE
  InputKinds = {"mention"}
  Environment = {"start", "pause", "agents", "expiry"}
  MaxHumanPosts = 0
  MaxFaults = 0
  Faulty = {}
  MaxCrashes = 1
SYMMETRY AgentSymmetry
INVARIANTS
  ClockLosesFewTicks
  OneChancePerInput
