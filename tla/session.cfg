SPECIFICATION FairSpec
CONSTANTS
  Jobs <- SessionJobs
  MaxDisplay = 2
CHECK_DEADLOCK FALSE
INVARIANT TypeOK OutputClosed HandlerRestored ZeroMeansTraced RefusedLeavesFile SummaryIsLast SummaryCounts ErrorsAreFailures ArgumentsAsPassed SizesAsPassed FormatsAgree QuotedIsReadable NoAbbrevShowsNoNames
PROPERTY Ends
