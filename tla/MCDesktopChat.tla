--------------------------- MODULE MCDesktopChat ---------------------------
(* Instances of DesktopChat for TLC. *)
EXTENDS DesktopChat
=============================================================================
