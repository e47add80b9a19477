SPECIFICATION Spec
CONSTANTS
    ListSizes <- MCListSizes
    Codes <- MCCodes
    MaxDescriptors = 3
    MaxAnnounces = 3
INVARIANTS CountMatchesArray WellAnswered
PROPERTIES AnnounceEnds
CHECK_DEADLOCK FALSE
