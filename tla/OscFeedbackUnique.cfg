CONSTANTS
    Ips = {h}
    Ports = {1, 2}
    DeliveryPorts = {2}
    Patterns = {"x", "y", "*"}
    Addresses = {"x"}
    Peers = {w}
    Matches <- MCMatches
    MaxSubscribers = 2
    MaxPatterns = 2
    MaxListeners = 1
    Emitters = {t}
    Nobody = Nobody
SPECIFICATION Spec
INVARIANT EndpointsUnique
