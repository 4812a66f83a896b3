-------------------------------- MODULE MCOutbox --------------------------------
EXTENDS Outbox, TLC
CONSTANTS a1, a2, w1, b1, b2, k1
MCAccounts == {a1, a2}
MCWorkspaces == {w1}
MCBlocks == {b1, b2}
MCKeys == {k1}
MCSizes == {0, 2}
MCSymmetry == Permutations(MCAccounts) \cup Permutations(MCBlocks)
================================================================================
