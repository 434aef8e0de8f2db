SPECIFICATION WebhookSpec
CONSTANTS
    Orders = {o1, o2}
    Incomplete = {i1}
    Others = {x1}
    Handlers = {h1, h2}
    NoEvent = NoEvent
    MaxDeliveries = 3
INVARIANT OneOrderPerEvent
CHECK_DEADLOCK FALSE
