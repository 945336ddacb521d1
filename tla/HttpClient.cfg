SPECIFICATION ClientSpec
CONSTANTS
    Users = {root, bob}
    MaxClients = 3
    MaxSessions = 2
    MaxRequests = 4
    Statuses <- MCStatuses
    Bodies <- MCBodies
INVARIANTS
    ActsAsMeant
    LogoutMeansGone
    AnswerIsWhole
    RefusalIsTyped
    SessionTravels
CHECK_DEADLOCK FALSE
SYMMETRY Symmetric
