SPECIFICATION FairSpec
CONSTANTS
  Mails = {1, 2}
  Labels = {7}
  LabelsOf <- OneLabelled
  MaxOpens = 2
  MaxRefreshes = 2
  MaxPosted = 2
INVARIANTS
  TypeOK
  ListMatchesFilter
  AnswerFindsBody
  IndicatorShowsDownload
PROPERTIES
  DownloadClearsIndicator
  RequestsAnswered
CHECK_DEADLOCK FALSE
