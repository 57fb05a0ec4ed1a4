------------------------- MODULE MC_HeaderSelector -------------------------
EXTENDS HeaderSelector
CONSTANTS h1
MCNumbers == 0 .. 2
MCHashes == {h1}
=============================================================================
