------------------------ MODULE MCDynamicTableTracker ------------------------
EXTENDS DynamicTableTracker

\* "x", ":path"
MCNames == {<<120>>, <<58, 112, 97, 116, 104>>}
\* "", "y"
MCValues == {<<>>, <<121>>}
\* Entry sizes are 33, 34, 37 and 38: 100 holds three small entries, 70 two.
MCCapacities == {0, 33, 40, 70, 100}
\* What encoder.table.set_capacity also accepts: a negative capacity.
MCCapacitiesDirect == MCCapacities \cup {-1}
\* Two out-of-range indices around the valid ones.
MCIndices == {-1, 0, 1, 2, 3}
=============================================================================
