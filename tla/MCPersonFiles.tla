---------------------------- MODULE MCPersonFiles ----------------------------
\* PersonFiles with one person, two handlers and passes of a single row.
EXTENDS PersonFiles, TLC
=============================================================================
