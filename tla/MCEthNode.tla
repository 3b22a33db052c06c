------------------------------- MODULE MCEthNode -------------------------------
EXTENDS EthNode
================================================================================
