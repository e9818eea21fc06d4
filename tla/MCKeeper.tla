------------------------------ MODULE MCKeeper ------------------------------
(* Small instances of Keeper.                                              *)
EXTENDS Keeper, TLC

\* Two Dial calls differ in nothing but their name.
DialerSymmetry == Permutations(Dialers)
=============================================================================
