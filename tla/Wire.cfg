SPECIFICATION Spec
CONSTANTS
    Marker <- MarkerBytes
    DebuggerMarker <- DebuggerBytes
    HeaderRest <- RestBytes
    Payload <- PayloadBytes
    SizeOf <- Sizes
    Noise = "x"
    MaxPacket = 3
    HeaderTimeout = 2
    PayloadTimeout = 3
    RetryAfter = 6
    MaxFaults = 3
    MaxLine = 12
    Slow = FALSE
PROPERTIES
    Answered
    FirstTry
CHECK_DEADLOCK FALSE
