CONSTANTS
    v1 = v1
    v2 = v2
    k1 = k1
    k2 = k2
    k3 = k3
    Null = Null
    NoEntry = NoEntry
    Values <- MCValues
    Blocks <- MCBlocks
    Positions <- MCPositions
    DefaultCapacity = 2
    MaxCapacity = 4
    Capacity = 4
    ObjectArrays = FALSE
    Optimizes = {"ahead"}
    Keys <- MCKeys
    Entries <- MCValues
    HashOf <- MCHashOf
    Primes <- MCPrimes
    LoadPercent = 72
    Holes = FALSE
SPECIFICATION AnySpec
PROPERTIES
    IsSequence
    IsMap
CHECK_DEADLOCK FALSE
