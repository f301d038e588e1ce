---------------------------- MODULE MCDesktopSync ----------------------------
(* Small instances of DesktopSync for TLC.  The flushes are interchangeable *)
(* and every property checked with this symmetry is a safety property.      *)
EXTENDS DesktopSync, TLC

FlushSymmetry == Permutations(Flushers)
=============================================================================
