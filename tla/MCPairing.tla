----------------------------- MODULE MCPairing ------------------------------
\* Instance of Pairing: one pair command at a time, repeated as often as it fails.
EXTENDS Pairing, TLC
=============================================================================
