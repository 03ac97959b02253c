--------------------------- MODULE MCSgeAllocator ---------------------------
\* Small instances of SgeAllocator for TLC.
EXTENDS SgeAllocator
CONSTANTS v1, v2
TwoOwners   == {v1, v2}
=============================================================================
