SPECIFICATION Spec
CONSTANTS
    a = a
    b = b
    s = s
    Clients <- MCClients
    Seeders <- MCSeeders
    Hidden <- MCHidden
    Torrents <- MCTorrents
    Lists <- MCLists
    MAX_CONN = 2
    MaxAnnounces = 3
INVARIANTS UpMeansShaken
PROPERTIES RingsLast WaitEnds
CHECK_DEADLOCK FALSE
