----------------------------- MODULE MCFastPush -----------------------------
(* Instances of FastPush for TLC. *)
EXTENDS FastPush

\* The destination is absent or empty, or already has the size of the file.
EmptyOrSameSize == {0, Size}
=============================================================================
