SPECIFICATION Spec
CONSTANTS
  None = None
  Wish = {1}
  Kind <- MCFilm
  CreatedAt <- MCCreated1
  Answers <- AnswersTroubled
  Shows <- MCShows
  LastEvents <- MCEvents
  ReleaseAnswers <- MCOffers
  wanted_languages <- MCWanted1
  MayOmit = FALSE
  SearchOn = FALSE
  MaxSearchesPerDay = 1
  StallAfter = 2
  RetryFailedAfter = 1
  RefreshReasonAfter = 3
  MIN_NOTICE_GAP = 2
  DayLength = 2
  MaxTime = 5
  MaxFaults = 2
INVARIANTS
  RetryOnce
  GapKept
  NoticeAfterRelease
