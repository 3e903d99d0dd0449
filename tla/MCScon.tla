------------------------------- MODULE MCScon -------------------------------
(* Libraries for the configurations of Scon: x and y have nothing in common;  *)
(* y and z depend on the same third library.                                  *)
EXTENDS Scon

CONSTANTS x, y, z

Areas ==
  [l \in Libs |-> CASE l = x -> {<<10, 12>>, <<12, 13>>}
                    [] l = y -> {<<20, 22>>, <<30, 31>>}
                    [] l = z -> {<<25, 26>>, <<30, 31>>}]
=============================================================================
