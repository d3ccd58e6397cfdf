CONSTANTS
    Messages <- MCMessages
    From <- MCFrom
    To <- MCTo
    WithToken <- MCTokens
    EvmLimit = 1
    NexusLimit = 1
    QueueBound = 2
SPECIFICATION FlowSpec
INVARIANTS
    QueuesMatchStatus
    EffectsMatchStatus
    OnePacketInFlight
PROPERTIES
    MessagesArrive
