------------------------------ MODULE MCQuery ------------------------------
EXTENDS Query
=============================================================================
