----------------------------- MODULE MCSession -----------------------------
(* Clients, and commands, are interchangeable. *)
EXTENDS Session, TLC

Symmetry == Permutations(Clients) \cup Permutations(Keys)
=============================================================================
