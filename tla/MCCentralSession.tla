--------------------------- MODULE MCCentralSession ---------------------------
\* CentralSession on a small instance; the requests are interchangeable.
EXTENDS CentralSession, TLC

RequestSymmetry == Permutations(Requests)
=============================================================================
