SPECIFICATION PartsSpec
CONSTANT Items = {1, 2, 3, 4, 5, 6, 7, 8, 9}
INVARIANTS PartsTypeOK SizeBounded FailuresBounded  RunningIsMapped TokenFresh
           UpdateRevisionFits
PROPERTIES   ClientFollowsController ClientFollowsRestApi
           RevisionSettles HistoryWithinLimit
CHECK_DEADLOCK FALSE
