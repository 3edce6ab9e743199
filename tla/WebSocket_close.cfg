\* Two endpoints that both answer Pings; only the server answers a Close by itself, and the
\* client may drop its stream at any time.
SPECIFICATION Spec
CONSTANTS
    AutoPong = {"client", "server"}
    AutoCloseReply = {"server"}
    MaxMessageSize = 2
    MaxPayloads = 3
    MaxPings = 1
    MayDrop = {"client"}
INVARIANTS CloseIsLast DeliveredInOrder NoHalfOpen
PROPERTIES ReadersAreReleased
CHECK_DEADLOCK FALSE
