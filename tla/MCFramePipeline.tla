--------------------------- MODULE MCFramePipeline ---------------------------
\* FramePipeline on a small instance: two processing threads, two callers of aclose().
EXTENDS FramePipeline, TLC
=============================================================================
