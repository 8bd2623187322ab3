SPECIFICATION FairSpec
CONSTANT Cases <- MCCases
INVARIANTS TilesPartition SendsMatchReceives ReadyMeansFilled
PROPERTIES Completes
