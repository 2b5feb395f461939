CONSTANTS
    Names <- MCNames
    Values <- MCValues
    Capacities <- MCCapacities
    Indices <- MCIndices
    MaxInsertCount = 5
SPECIFICATION Spec
INVARIANTS TypeOK SizeWithinCapacity
PROPERTY TrackerImplementsTable
