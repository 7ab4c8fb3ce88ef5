--------------------------- MODULE MCMergePipeline ---------------------------
EXTENDS MergePipeline
==============================================================================
