----------------------------- MODULE MCServices -----------------------------
(* The functions that a client calls; the others are posted and looked up, in   *)
(* the same way, and never called.                                              *)
EXTENDS Services, TLC

MCIpcNames == <<"socket", "bind", "listen", "accept">>
Alike == Permutations(Servers) \cup Permutations(Clients)
=============================================================================
