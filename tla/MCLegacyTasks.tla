--------------------------- MODULE MCLegacyTasks ---------------------------
EXTENDS LegacyTasks
=============================================================================
