------------------------ MODULE MCManualQpackEncoder ------------------------
EXTENDS ManualQpackEncoder, TLC

\* The static table of src/research/qpack_static_table.py, 0-indexed.
S == INSTANCE QpackStaticTable
MCStaticTable == S!StaticNames
MCStaticTableSize == S!STATIC_TABLE_SIZE

\* Row 0 (":authority") and row 63 (":status", the first index whose 6-bit
\* prefix needs a continuation byte); -1 and 99 are out of range.
MCStaticIndices == {-1, 0, 63, 99}
\* "x"
MCLiteralNames == {<<120>>}
MCNames == {MCStaticTable[i] : i \in MCStaticIndices \cap DOMAIN MCStaticTable}
               \cup MCLiteralNames
\* A 31-byte literal name, "xx...x": its length needs a continuation byte
\* after the 5-bit prefix of Insert With Literal Name.
MCLongLiteralNames == {[k \in 1..31 |-> 120]}
MCLongNames == (MCNames \ MCLiteralNames) \cup MCLongLiteralNames
\* "", "y": entry sizes 33 to 43, so 160 holds three or four entries.
MCValues == {<<>>, <<121>>}
\* A negative capacity, one above every ceiling, and sizes that force
\* eviction; 160 is the first capacity taking three bytes (5-bit prefix).
MCCapacities == {-1, 0, 40, 160, 201}
MCMaxTableCapacities == {40, 200}
\* Dynamic 2 is often out of range.
MCIndices == {-1, 0, 1, 2}
=============================================================================
