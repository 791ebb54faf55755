SPECIFICATION MCSpec
CONSTANTS
  Scenarios = {"tst_chan_all_master", "tst_chan_one_master", "tst_sleeplock_master",
    "tst_ksemaphore_1master", "tst_ksemaphore_2master", "arrayOperations_Master",
    "MidTermEx_Master0", "MidTermEx_Master2", "tst_sharing_1", "tst_sharing_2master",
    "tst_sharing_3", "tst_protection", "tst_invalid_access"}
  NumOfSlaves = 3
  ShopCapacity = 2
  Large = 16
  MaxRounds = 2
INVARIANTS NoTestFails OrderedByT ResultsAreRight HeapTestsPass
PROPERTY AllEnd
CHECK_DEADLOCK FALSE
