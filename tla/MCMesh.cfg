SPECIFICATION SafeSpec
CONSTANTS
  Parts = {"jobs", "inference", "federation", "pool", "registry", "schedule", "plan", "reads",
           "chain", "shard", "daemon", "verify", "stream", "identity"}
  c1 = c1  c2 = c2  w1 = w1  w2 = w2  j1 = j1  NoNode = NoNode
  Coordinator = {c1, c2}  Worlds <- MCWorlds
  SETTLEMENT_WINDOW_SECS = 1  MAX_INTENT_ATTEMPTS = 2  LeaseSeconds = 1  GraceSeconds = 0
  Provider = {p1, p2}  Billed = p1  Nobody = Nobody
  WINDOW = 1  LEASE = 0  LastTick = 2  LastReceipt = 2  CallBound = 2  CrashBound = 1
  f1 = f1  f2 = f2  f3 = f3  k1 = k1  k2 = k2
  Peers = {f1, f2, f3}  Jobs = {k1, k2}  weight <- MCweight  Name <- MCName
  misses_before_down = 2  MaxFaults = 2
  Thread = {t1, t2, t3, t4}  max = 2  MaxFailures = 1
  Registrant = {n1}  Nonces = {a1, a2}  AUTH_MAX_CLOCK_SKEW_SECS = 1  MaxClock = 4  MaxDrift = 1
  eu = eu  us = us  NoRegion = NoRegion  Region = eu
  Workers <- MCWorkers  Boards <- MCBoards  Times = {300, 320, 500}  Pollers = {0, 5}
  DEFAULT_LEASE_SECONDS = 900  MAX_LEASE_SECONDS = 2700  HEAD_START_SECONDS = 30  STARVATION_SECS = 300
  Fleets <- MCFleets  Requirements <- MCRequirements
  NoPlace = 1000  TransferCost = 60  UNKNOWN_EDGE_MICROS = 500
  Members <- MCMembers  Certifiable <- MCEntries  NoClaim = 0  MaxReads = 1
  r1 = r1  r2 = r2  Run = {r1, r2}  Session <- MCSession  Prompt <- MCPrompt
  StageCount = 2  MAX_SESSIONS = 1  max_new_tokens = 1  MaxChainFaults = 1  MaxWipes = 1
  Models <- MCModels  BlockCount = 2  Unknown = Unknown  NoFile = NoFile  MaxShards = 2
  Listings <- MCListings  Requests <- MCRequests  Other <- MCOther
  Archive = {"llama-cli", "libggml"}  None = None  MaxMishaps = 2
  Machine <- MCMachine  Runtime = TRUE  Worker = {1, 2}  AI = AI  WorkSizes = {40, 90, 300}
  Batches <- MCBatches  gpu_layers = 1  Edits <- MCEdits  Handler = {h1}  DefaultLimits <- MCDefault
  Works <- MCWorks  ShardCounts = {1, 2, 3}  BUCKETS = 4  AUDIT_BUCKETS = 2
  MODULUS = 3  dim = 2  SeedA <- MCSeedA  SeedB <- MCSeedB  MaxStreak = 1
  Endpoint = {1, 2}  Frames = 3  max_reorder_window = 2  MaxStreamFaults = 2
  Daemon = {1, 2, 3, 4, 5}  NoDaemon = NoDaemon  MaxOps = 5
  Command = {1, 2}  Passphrase = {"pw"}  Open = Open  Missing = Missing  Torn = Torn
  MaxKeys = 2  MaxSeconds = 1  MaxCommands = 4
INVARIANTS
  RunnableIsFunded SettledIsClaimed WaitingIsChased 
    UnownedOnlyBehindDead
  NoLostWakeup  OfferIsServable PlanIsServable ReadIsFresh
  OkIsWhole StageReadsWhatIsThere PermitsAddUp
  HonestWorkPasses   AccountsSurvive
CHECK_DEADLOCK FALSE
