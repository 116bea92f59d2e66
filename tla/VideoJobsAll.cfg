SPECIFICATION SmallFairSpec
CONSTANTS
  Jobs <- TwoJobs
  Workers <- TwoWorkers
  Chats <- TwoChats
  BatchSize = 2
  MaxFaults = 1
  MaxOverruns = 1
INVARIANTS TypeOK OneHolder RepeatsNeedFaults FilesFollowJobs
PROPERTIES CompletedIsFinal DeliverySpec VideosEndAndLeave
