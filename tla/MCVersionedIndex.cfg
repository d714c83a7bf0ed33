SPECIFICATION Spec
CONSTANTS
    Zones = {1, 2}
    ZoneBoxes <- MCBoxes
    Validities <- MCValidities
    Times = {1, 2}
    Forever = 9
    World <- MCWorld
    Cap = 1
    MaxDepth = 2
    Absent = Absent
    MaxVersions = 4
INVARIANTS QueriesTellTheWorld
PROPERTIES ImplementsZoneHistory AnswersStand
CHECK_DEADLOCK FALSE
