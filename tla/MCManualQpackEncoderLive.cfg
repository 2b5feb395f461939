CONSTANTS
    STATIC_TABLE <- MCStaticTable
    STATIC_TABLE_SIZE <- MCStaticTableSize
    Names <- MCNames
    LiteralNames <- MCLiteralNames
    Values <- MCValues
    Capacities <- MCCapacities
    MaxTableCapacities <- MCMaxTableCapacities
    StaticIndices <- MCStaticIndices
    Indices <- MCIndices
    ServerMaxTableCapacity = 200
    MaxInsertCount = 3
    MaxPending = 2
SPECIFICATION LiveSpec
PROPERTY StreamDrains
