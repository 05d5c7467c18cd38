SPECIFICATION Spec
CONSTANTS
  None = None
  Inactive = Inactive
  Callers = {r1}
  Tokens = {t1, t2}
  TTL = 1
  Life = 2
  MaxDelay = 1
  Horizon = 3
  MaxEvents = 2
  Visitors = {r1, r2, t1, t2}
  Limit = 2
  Window = 2
  End = 5
  Tests = {t1, t2}
  Takers = {r1, r2}
  MaxSubmits = 3
  Planners = {r1, r2}
  NWeeks = 3
  NSubtopics = 1
  HistoryLimit = 1
  MaxDates = 2
  MaxDay = 3
  MaxQuizzes = 2
  MaxToggles = 1
  Learners = {r1, r2, r3}
  MaxAsks = 4
  Orders = {1}
  Handouts <- DocumentKinds
  Prompts = {TRUE, FALSE}
  BatchPages = 2
  MaxAttempts = 5
  Jobs = {r1, r2}
  Uploaders = {t1, t2}
  Textbooks <- TextbookKinds
  PageWords = 5
  ChunkTokens = 8
  OverlapWords = 2
  EmbedBatch = 2
  MaxContexts = 1
SYMMETRY Symmetry
INVARIANTS
  TypeOK
  AdmittedAsTold
  SubmissionsAreCounted
  RoadmapsAgree
  DoneIsBacked
  ContentsAreTrue
CHECK_DEADLOCK FALSE
