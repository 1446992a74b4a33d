--------------------------- MODULE MCTableEngine ----------------------------
EXTENDS TableEngine
=============================================================================
