SPECIFICATION Spec
CONSTANTS
    Marker <- MarkerBytes
    DebuggerMarker <- DebuggerBytes
    HeaderRest <- RestBytes
    Payload <- PayloadBytes
    SizeOf <- Sizes
    Noise = "x"
    MaxPacket = 3
    HeaderTimeout = 2
    PayloadTimeout = 3
    RetryAfter = 6
    MaxFaults = 0
    MaxLine = 12
    Slow = TRUE
PROPERTY GapOnly
CHECK_DEADLOCK FALSE
