----------------------------- MODULE MCImporter -----------------------------
(* The loader, a library (code, a gap and data), the stack, and free addresses  *)
(* above.                                                                       *)
EXTENDS Importer

MCLayout == <<"exe", "none", "ro", "rw", "special",
              "absent", "absent", "absent", "absent", "absent">>
=============================================================================
