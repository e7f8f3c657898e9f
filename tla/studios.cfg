SPECIFICATION StudiosSpec
CONSTANTS
  t1 = t1  t2 = t2
  Slot = {h1, h2}
  MaxRuns = 4
  MaxScenes = 2
  MaxAttempts = 2
  MaxStalls = 1
  MaxCalls = 2
  MediaPassed = {TRUE, FALSE}
  AskedDays = {0, 1, 2, 30, 60, 61}
  AskedFor <- SomePlatforms
  Answers <- SomeEntries
  Words <- SomeWords
  AskedSeconds = {0, 3, 15, 16, 61, 180, 200}
  Feeds <- SomeFeeds
  Failed = Failed
  NoName = NoName
  Name <- SomeNames
  GrowthParts = 12  RateParts = 20000
  Niches <- SomeNiches
  Channels <- SomeChannels
  Posts <- SomePosts
  TopN = 1
  Platforms = {{"x"}, {"linkedin"}, {"x", "linkedin"}}
  CaptionLimit <- Short
  HashtagLimit <- Few
  Word <- TextWords
  Within <- Found
  Signals = {"affiliate"}
  Terms = {{}, {"cure"}, {"cure", "affiliate"}}
  Disclosures = {{}, {"#ad"}, {"#ad", "secure"}}
SYMMETRY Interchangeable
INVARIANTS 
  StudiosTypeOK OnlyWorkRemains OneVideoPerJob AnswersAreTrue
  DraftsFit BestComesFirst GateIsStrict
CHECK_DEADLOCK FALSE
