SPECIFICATION FairSpec
CONSTANT Cases <- TwoToTwelve
PROPERTIES Completes
