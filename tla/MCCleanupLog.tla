---------------------------- MODULE MCCleanupLog ----------------------------
(* The cleanup log with the processes of the configurations as model values. *)
EXTENDS CleanupLog

CONSTANTS a, b, c, d
=============================================================================
