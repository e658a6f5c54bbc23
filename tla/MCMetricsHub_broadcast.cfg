SPECIFICATION HubSpec
CONSTANTS
    Clients = {c1, c2, c3}
    Unreliable = {}
    Broadcasts = {b1}
    MaxClients = 3
    Handshakes = 1
    HubStops = 0
CHECK_DEADLOCK FALSE
PROPERTIES
    SubscribersReached
