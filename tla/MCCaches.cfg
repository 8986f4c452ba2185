SPECIFICATION Spec
CONSTANTS
  Calls = {c1, c2}
  Asked <- MCAsked
  Payloads <- MCPayloads
  MaxCuts = 1
  Posts = {p1, p2}
  Bodies <- MCBodies
  WebPayloads <- MCWebPayloads
  Enabled = TRUE
  HistoricalTtl = 2
  CurrentTtl = 1
  MaxAttempts = 2
  MaxDays = 3
  Files <- MCFiles
  Targets <- MCTargets
  StartDay = 1
  Sharers = {s1, s2}
  ShareIds = {id1, id2, id3}
  MaxShareAttempts = 2
  MaxClicks = 2
  MaxDesigns = 1
  Nobody = Nobody
  CacheVersion <- MCCacheVersion
  Parts = {"main", "results"}
  MaxLoads = 3
  same1 = same1
  same2 = same2
  bad = bad
  junk = junk
  RunPosts <- MCRunPosts
  Hash = {"h1", "h2"}
  HashOf <- MCHashOf
  Malformed = {junk}
  Unsolved = {bad, junk}
  Version = {old, new}
  None = None
INVARIANTS
  AnswersFit
  UploadIsKept
  LinksStand
  CalmLoadIsLive
PROPERTIES AnswersAsIfUncached EveryPostAnswered
