SPECIFICATION MCSpec
CONSTANTS
  None = None
  r1 = r1 r2 = r2 a1 = a1 a2 = a2 o1 = o1
  Request = {r1, r2} Approval = {a1, a2} Operator = {o1}
  Modes <- TheModes TTL = 1 MaxTime = 1
  w1 = w1 w2 = w2
  Writer = {w1, w2} Amounts <- TheAmounts MaxEvents = 2 TrimInterval = 2 MaxCrashes = 1 MaxCancels = 2
  good = good bad = bad human = human host = host
  Callers <- TheCallers Paths <- ThePaths Token = good RequireName = TRUE
  Limit = 2 Window = 2 MaxBuckets = 2 MaxClock = 4
  c1 = c1 h1 = h1 p1 = p1
  MaxIds = 2 Closer = {c1} Helper = {h1} Port = {p1} MaxSessions = 1 MaxStops = 1 Troubles <- TheTroubles
  j1 = j1 j2 = j2 t1 = t1
  CronJob = {j1, j2} Trigger = {t1} MaxJobs = 2 SessionRoom = 1 QueueRoom = 1
  ReadFails = {TRUE, FALSE} MaxRuns = 1 MaxStarts = 1
  k1 = k1 k2 = k2 i1 = i1 i2 = i2
  Call = {k1, k2} Want = {"tool", "session"} Handler = {i1, i2} PeerRecord <- TheRecords
  NonceRoom = 1 AgeLimit = 0 Hour = 2 Hitches <- TheHitches MaxTicks = 2 MaxCopies = 2
  Plan <- ThePlans MaxLosses = 1
  v1 = v1 v2 = v2 d1 = d1
  Run = {v1, v2} Trials <- TheTrials Checker = {d1} MaxCuts = 1
  m1 = m1 m2 = m2
  McpId = {m1, m2} Resource = {"sessions", "dom"}
  MaxKept = 1 Setups <- TheSetups
  Ask <- TheAsks Act <- TheActs
  b1 = b1 b2 = b2 q1 = q1 q2 = q2
  Scenes <- TheScenes Client = {b1, b2} Grant = {q1, q2}
  u1 = u1 u2 = u2 n1 = n1 n2 = n2
  Account = {u1, u2} AuthProfile = {n1, n2} Lodging <- TheLodgings MaxAge = 1 MaxHours = 2
  x1 = x1 x2 = x2 x3 = x3
  NetRequest = {x1, x2, x3} SkippedRequests = {x3} MaxEntries = 1 MaxLag = 3
INVARIANTS
  EffectsAreGranted OnePendingEach NoLeftoverContext
  ReceiptsKept EventsKept
  LimitsHonest
   RecordsTruthful
  JobsKept
  DelegatedOnce  FlowFileTruthful
  CandidateEarned HealthySkill
  DurableSessions
  LoopGuarded EffectsTold GovernedCalls
  ProfilesApart ConfidentialSealed NetworkSettled
PROPERTY SpentForGood
CHECK_DEADLOCK FALSE
