SPECIFICATION FairLakeSpec
CONSTANTS
    Kinds = {"snapshot", "noId"}
    MaxRecords = 2
    MaxCrashes = 2
CHECK_DEADLOCK FALSE
INVARIANTS
    OneRowPerRecord
    CommittedIsStored
    TracksAgree
PROPERTIES
    GoldCatchesUp
