SPECIFICATION FairSpec
CONSTANTS
    Clients = {c1}
    Players = {p1}
    Strangers = {}
    NoClient = NoClient
    NoId = NoId
    MaxStep = 1
    MaxInputs = 0
PROPERTY ClientsLeaveEndedGame
