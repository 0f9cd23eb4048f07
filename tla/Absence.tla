------------------------------- MODULE Absence -------------------------------
(* One value for what is null, undefined or missing, shared by the modules  *)
(* of the sources so that their states can stand beside each other.         *)
CONSTANT None
=============================================================================
