SPECIFICATION FairSpec
CONSTANTS
  Commands <- TwoCommands
  MaxFaults = 3
INVARIANTS TypeOK PlayedOnce ReportsAreTrue AudioFollowsCommand
PROPERTIES OutcomeIsFinalInTime CommandsEnd
