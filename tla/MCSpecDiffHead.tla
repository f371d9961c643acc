--------------------------- MODULE MCSpecDiffHead ---------------------------
EXTENDS SpecDiff
=============================================================================
