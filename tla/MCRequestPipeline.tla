--------------------------- MODULE MCRequestPipeline ---------------------------
EXTENDS RequestPipeline
=============================================================================
