CONSTANTS
  NbResources = 2
  NumberOfBuilders = 1
  MaxTriesFUsStale = 2
  LatencyLow = 0
  LatencyHigh = 1
  NbDisks = 1
  Summaries <- MCSummaries
  FirstSummaries <- MCFirstSummaries
  MaxLumi = 3
  MaxChanges = 1
SPECIFICATION FairSpec
INVARIANT TypeOK
PROPERTIES ExhaustedBlocks HindrancesEnd
