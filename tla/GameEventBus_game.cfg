SPECIFICATION FairSpec
CONSTANTS
    Publishers <- MCPublishers
    Dispatchers <- MCDispatchers
    TopicName <- MCTopicName
    Receivers <- MCReceivers
    Nothing = Nothing
INVARIANTS
    DispatchedToAll
    NoPanicInGame
PROPERTIES
    PublishAccepted
    ShutdownStops
CHECK_DEADLOCK FALSE
