------------------------------ MODULE MCKVStore -------------------------------
(* One key, two threads in syncAllKeys, one that edits.                        *)
EXTENDS KVStore

CONSTANTS k1, s1, s2, e1
================================================================================
