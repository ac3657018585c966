----------------------------- MODULE MCAlphaMap -----------------------------
\* The alphabet map for TLC.
EXTENDS AlphaMap
=============================================================================
