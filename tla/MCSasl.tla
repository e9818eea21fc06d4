------------------------------- MODULE MCSasl -------------------------------
(* Instances of Sasl for TLC.  Clients are interchangeable. *)
EXTENDS Sasl, TLC

ClientSymmetry == Permutations(Clients)
=============================================================================
