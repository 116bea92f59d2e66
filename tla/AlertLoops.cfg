SPECIFICATION Spec
CONSTANTS
  Chats <- TwoChats
  Reportable = {"upload_delayed"}
  Images <- FourImages
  Cooldown = 1
  MaxGap = 2
  BatchSize = 2
  MaxFaults = 1
INVARIANTS TypeOK AlertsMatchHealth RecordsAreTrue RepeatsNeedFaults EventsPartition
PROPERTIES HealthCatchesUp MotionCatchesUp
