---------------------------- MODULE MCPrintfPush ----------------------------
(* Instances of PrintfPush for TLC. *)
EXTENDS PrintfPush

\* The destination is absent or empty, or has as many units as the file: a size
\* check alone cannot tell it from a finished push.
EmptyOrSameSize == {0, FileSize}
=============================================================================
