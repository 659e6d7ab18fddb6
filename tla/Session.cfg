SPECIFICATION FairSpec
CONSTANTS
    Clients = {c1, c2}
    Players = {p1}
    Strangers = {x}
    NoClient = NoClient
    NoId = NoId
    MaxStep = 2
    MaxInputs = 1
INVARIANTS NoPanic CompleteHistory ReplayIsBroadcast
PROPERTIES ReplyGoesToRequester LeaveKeepsSuccessor ImplementsFeed
           RequestsReturn StoppedReaderLeaves GameEnds
