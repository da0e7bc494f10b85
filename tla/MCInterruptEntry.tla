--------------------------- MODULE MCInterruptEntry ---------------------------
EXTENDS InterruptEntry
===============================================================================
