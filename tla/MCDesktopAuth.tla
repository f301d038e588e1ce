---------------------------- MODULE MCDesktopAuth ----------------------------
(* Small instances of DesktopAuth for TLC.                                 *)
EXTENDS DesktopAuth
=============================================================================
