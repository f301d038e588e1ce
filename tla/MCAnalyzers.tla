----------------------------- MODULE MCAnalyzers -----------------------------
\* Analyzers on one zone, with memories as long as the longest gap of a track.
EXTENDS Analyzers, TLC
=============================================================================
