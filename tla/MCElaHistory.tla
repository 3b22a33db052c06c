------------------------------ MODULE MCElaHistory ------------------------------
EXTENDS ElaHistory

CONSTANTS k1
================================================================================
