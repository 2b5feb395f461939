CONSTANTS
    Names <- MCNames
    Values <- MCValues
    Capacities <- MCCapacitiesDirect
    Indices <- MCIndices
    MaxInsertCount = 5
SPECIFICATION Spec
INVARIANT SizeWithinCapacity
