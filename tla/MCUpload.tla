-------------------------------- MODULE MCUpload --------------------------------
EXTENDS Upload
CONSTANTS a1, a2, w1, w2, b1, b2
MCAccount == {a1}
MCAccounts == {a1, a2}
MCWorkspace == {w1}
MCWorkspaces == {w1, w2}
MCBlocks == {b1, b2}
MCBlock == {b1}
MCKeys == 1 .. MaxSession
MCPlain == {0}
MCImages == {1}
MCHere == {ScopeOf(a1, w1)}
================================================================================
