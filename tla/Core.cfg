SPECIFICATION Spec
CONSTANTS
  a1 = a1
  a2 = a2
  t1 = t1
  t2 = t2
  NoAgent = NoAgent
  NoToken = NoToken
  Agents <- TwoAgents
  Threads <- OneThread
  FirstThread = t1
  Closers = {}
  Tokens <- FiveTokens
  MaxStimuli = 2
  MaxAttempts = 2
  MaxDepth = 0
  MaxRounds = 4
  MaxPosts = 4
  AgentQuota = 4
  ThreadQuota = 4
  SelectMax = 2
  Retries = 1
  Continuous = TRUE
  Autonomous = FALSE
  Dormancy = FALSE
  VirtualTime = FALSE
  Cooldowns = FALSE
  InputKinds = {}
  Environment = {"start", "pause", "stop", "step"}
  MaxHumanPosts = 0
  MaxFaults = 1
  Faulty = {"stepper", "worker"}
  MaxCrashes = 2
SYMMETRY AgentSymmetry
INVARIANTS
  TerminalRunIsQuiet
  DeliveredOnce
  PendingHasAttempts
  CompletedIsSettled
PROPERTIES
  FrozenAfterEnd
  PostsAreFenced
  PausedWorkerWaits
