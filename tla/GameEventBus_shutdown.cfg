SPECIFICATION Spec
CONSTANTS
    Publishers <- MCNoPublishers
    Dispatchers <- MCDispatchers
    TopicName <- MCMessageTopic
    Receivers <- MCReceivers
    Nothing = Nothing
INVARIANT StopsWithoutPanic
CHECK_DEADLOCK FALSE
