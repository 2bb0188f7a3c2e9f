SPECIFICATION LiveSpec
CONSTANTS
  None = None
  Wish = {1, 2}
  Kind <- MCFilmAndSeries
  CreatedAt <- MCCreated2
  Answers <- AnswersSearching
  Shows <- MCShows
  LastEvents = {None}
  ReleaseAnswers <- MCOneOffer
  wanted_languages <- MCWanted2
  MayOmit = FALSE
  SearchOn = TRUE
  MaxSearchesPerDay = 3
  StallAfter = 2
  RetryFailedAfter = 1
  RefreshReasonAfter = None
  MIN_NOTICE_GAP = 2
  DayLength = 2
  MaxTime = 4
  MaxFaults = 1
PROPERTIES
  StuckIsTold
