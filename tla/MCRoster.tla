------------------------------ MODULE MCRoster ------------------------------
(* Instances of Roster for TLC.  Other people are interchangeable. *)
EXTENDS Roster

NickSymmetry == Permutations(Others)
=============================================================================
