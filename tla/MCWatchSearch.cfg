SPECIFICATION Spec
CONSTANTS
  None = None
  Wish = {1, 2}
  Kind <- MCFilmAndSeries
  CreatedAt <- MCCreated2
  Answers <- AnswersSearching
  Shows <- MCShows
  LastEvents = {None}
  ReleaseAnswers <- MCOffers
  wanted_languages <- MCWanted2
  MayOmit = FALSE
  SearchOn = TRUE
  MaxSearchesPerDay = 2
  StallAfter = 2
  RetryFailedAfter = 1
  RefreshReasonAfter = 2
  MIN_NOTICE_GAP = 2
  DayLength = 2
  MaxTime = 4
  MaxFaults = 2
INVARIANTS
  TypeOK
  BudgetKept
  SearchedOnce
  NoNoticeTwice
  OneSearchPerRound
PROPERTIES
  PromiseKept
