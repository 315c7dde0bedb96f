CONSTANTS
  Flags <- SmallLines
  MaxInt <- MCMaxInt
  MaxExact <- MCMaxExact
  UserIDs <- MCUserIDs
  Visitors <- MCVisitors
  Reqs <- MCReqs
  Inputs <- MCInputs
  Followed <- MCFollowed
  Busy <- BusyLines
SPECIFICATION FairExperiment
INVARIANTS
  ReportedIsMeasured
  GetsFindKeys
  MetersAgree
  ScrapeShowsAnswers
  SurvivesRequests
  ReportedIsServed
PROPERTIES
  Ends
  ServesBoth
  ServerImplements
