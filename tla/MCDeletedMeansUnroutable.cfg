\* The two-URL instance of MCNodePoller.cfg, for one claim about routing.
SPECIFICATION Spec
CONSTANTS
    n1 = n1
    u1 = u1
    u2 = u2
    p1 = p1
    p2 = p2
    admin1 = admin1
    admin2 = admin2
    Loop = Loop
    NoNode = NoNode
    NoModels = NoModels
    NodeIds <- MCNodeIds
    Urls <- MCUrls
    Pins <- MCOnePin
    Admins <- MCAdmin
    MaxChanges = 2
    MaxDead = 1
INVARIANT DeletedMeansUnroutable
