----------------------------- MODULE MCFastPull -----------------------------
(* Instances of FastPull for TLC. *)
EXTENDS FastPull
=============================================================================
